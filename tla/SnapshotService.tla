-------------------------- MODULE SnapshotService --------------------------
(***************************************************************************)
(* What the snapshot cache promises its callers, with no cache, no lock    *)
(* and no file in it: databases are published in generations, a caller     *)
(* asks for one generation and gets exactly its content or an error, never *)
(* another generation's bytes and never a mixture, whatever is published   *)
(* in the meantime; and it always gets an answer.                          *)
(***************************************************************************)
EXTENDS Naturals, Sequences

CONSTANTS Callers, Contents, NoAnswer, Failed

VARIABLES
  generations,   (* The content published as each generation.              *)
  asked,         (* The generation each caller asked for, or 0.            *)
  answer         (* What it got.                                           *)

vars == <<generations, asked, answer>>

Init ==
  /\ generations = <<>>
  /\ asked = [c \in Callers |-> 0]
  /\ answer = [c \in Callers |-> NoAnswer]

Publish(content) ==
  /\ generations' = Append(generations, content)
  /\ UNCHANGED <<asked, answer>>

Ask(c, g) ==
  /\ asked[c] = 0
  /\ asked' = [asked EXCEPT ![c] = g]
  /\ UNCHANGED <<generations, answer>>

Answer(c) ==
  /\ asked[c] # 0
  /\ answer[c] = NoAnswer
  /\ \/ answer' = [answer EXCEPT ![c] = generations[asked[c]]]
     \/ answer' = [answer EXCEPT ![c] = Failed]
  /\ UNCHANGED <<generations, asked>>

Leave(c) ==
  /\ answer[c] # NoAnswer
  /\ asked' = [asked EXCEPT ![c] = 0]
  /\ answer' = [answer EXCEPT ![c] = NoAnswer]
  /\ UNCHANGED generations

Next ==
  \/ \E content \in Contents : Publish(content)
  \/ \E c \in Callers : (\E g \in 1 .. Len(generations) : Ask(c, g)) \/ Answer(c) \/ Leave(c)

(* What never happens ...                                                  *)
SafeSpec == Init /\ [][Next]_vars

(* ... and that every caller is answered.                                  *)
Spec == SafeSpec /\ \A c \in Callers : WF_vars(Answer(c))

=============================================================================
