--------------------------- MODULE MCBatchLookup ---------------------------
(***************************************************************************)
(* BatchLookup on small columns.                                           *)
(***************************************************************************)
EXTENDS BatchLookup, TLC

CONSTANTS
  w1, w2, w3,
  a, b,              (* Two addresses with one record.                     *)
  c,                 (* An address with a record that lacks the path.      *)
  none,              (* An address with no record.                         *)
  broken, corrupt,   (* Addresses that the search fails or panics on.      *)
  mistyped,          (* An address whose record holds another type.        *)
  ra, rc, rm, v

MCSearch == (a :> ra) @@ (b :> ra) @@ (c :> rc) @@ (mistyped :> rm)
         @@ (none :> Missing) @@ (broken :> LookupFailed) @@ (corrupt :> Panicked)
MCDecode == (ra :> v) @@ (rc :> Null) @@ (rm :> DecodeFailed)

UpTo(texts, n) == UNION {[1 .. k -> texts] : k \in 0 .. n}

(* Rows of every kind before and behind a record found again, in serial    *)
(* columns; errors, panics and values in columns cut into two tasks or     *)
(* three.                                                                  *)
MCColumns ==
  UpTo({a, b, c, NotAnIp}, 3) \cup UpTo({b, none, Null}, 3)
    \cup UpTo({a, mistyped, broken, corrupt}, 3)
    \cup [1 .. 4 -> {c, corrupt}] \cup [1 .. 4 -> {a, mistyped}]
    \cup {<<a, mistyped, c, corrupt, a>>, <<b, NotAnIp, a, c, broken>>,
          <<a, none, c, Null, b>>, <<corrupt, a, mistyped, b, broken>>}

=============================================================================
