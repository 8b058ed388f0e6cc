---------------------------- MODULE KnownRecords ----------------------------
(***************************************************************************)
(* Whole records of known databases: src/known.rs decodes most of them     *)
(* into maxminddb's own structs and makes Values of those field by field,  *)
(* by names written out a second time; the others are decoded by their     *)
(* schema.  Nothing but agreement with the tables of KnownSchemas makes    *)
(* the two ways alike.  The record of one row is followed here: from the   *)
(* database type to the cell, as lookup() does with no dtype given.        *)
(***************************************************************************)
EXTENDS KnownSchemas

CONSTANTS
  TypesInUse,        (* The database types looked up in.                   *)
  RecordsOf(_)       (* Records that keep to a schema.                     *)

ASSUME TypesAreKnown == TypesInUse \subseteq DatabaseTypes

(* A record's data is what its schema says, as far as it has any: of the   *)
(* schema's types, or of others that all of the decoders take for them.    *)
ASSUME RecordsKeepToSchema ==
  \A t \in TypesInUse : RecordsOf(KnownSchema(t)) \subseteq KeepingTo(KnownSchema(t))

VARIABLES type, record, stage, dtype, known, value, cell

vars == <<type, record, stage, dtype, known, value, cell>>

----------------------------------------------------------------------------
(* maxminddb::geoip2: the structs, of which all that matters here is what  *)
(* serde puts into each field.  A field is the entry of its own name, but  *)
(* for those that are renamed; the record is decoded by name, and an       *)
(* absent struct or list is an empty one.                                  *)

KeyOf ==
  [german |-> "de", english |-> "en", spanish |-> "es", french |-> "fr", japanese |-> "ja",
   brazilian_portuguese |-> "pt-BR", russian |-> "ru", simplified_chinese |-> "zh-CN",
   representation_type |-> "type"]

Member(struct, field, default) ==
  FindOr(struct.entries, IF field \in DOMAIN KeyOf THEN KeyOf[field] ELSE field, default)

StructIn(struct, field) == Member(struct, field, MapValue(<<>>))
ItemsIn(struct, field) == Member(struct, field, ListValue(<<>>)).items

----------------------------------------------------------------------------
(* The conversions of src/known.rs.                                        *)

Optional(found, kind) == IF found = None THEN Null ELSE Converted(found, kind)

(* string(), boolean(), uint8(), ... of a field that keeps its name.       *)
Strings(s, names) == [i \in 1 .. Len(names) |->
  Entry(names[i], Optional(Member(s, names[i], None), "string"))]
Booleans(s, names) == [i \in 1 .. Len(names) |->
  Entry(names[i], Optional(Member(s, names[i], None), "boolean"))]
Uints8(s, names) == [i \in 1 .. Len(names) |->
  Entry(names[i], Optional(Member(s, names[i], None), "uint8"))]
Uints16(s, names) == [i \in 1 .. Len(names) |->
  Entry(names[i], Optional(Member(s, names[i], None), "uint16"))]
Uints32(s, names) == [i \in 1 .. Len(names) |->
  Entry(names[i], Optional(Member(s, names[i], None), "uint32"))]
Floats64(s, names) == [i \in 1 .. Len(names) |->
  Entry(names[i], Optional(Member(s, names[i], None), "float64"))]

Renamed(s, name, field) == Entry(name, Optional(Member(s, field, None), "string"))

Names(s) ==
  MapValue(<<Renamed(s, "de", "german"), Renamed(s, "en", "english"),
             Renamed(s, "es", "spanish"), Renamed(s, "fr", "french"),
             Renamed(s, "ja", "japanese"), Renamed(s, "pt-BR", "brazilian_portuguese"),
             Renamed(s, "ru", "russian"), Renamed(s, "zh-CN", "simplified_chinese")>>)

NamesEntry(s) == <<Entry("names", Names(StructIn(s, "names")))>>

Continent(s) ==
  MapValue(Strings(s, <<"code">>) \o Uints32(s, <<"geoname_id">>) \o NamesEntry(s))

Country(s) ==
  MapValue(Uints32(s, <<"geoname_id">>) \o Booleans(s, <<"is_in_european_union">>)
             \o Strings(s, <<"iso_code">>) \o NamesEntry(s))

RepresentedCountry(s) ==
  MapValue(Uints32(s, <<"geoname_id">>) \o Booleans(s, <<"is_in_european_union">>)
             \o Strings(s, <<"iso_code">>) \o NamesEntry(s)
             \o <<Renamed(s, "type", "representation_type")>>)

CountryTraits(s) == MapValue(Booleans(s, <<"is_anycast">>))

CountryRecord(s) ==
  MapValue(<<Entry("continent", Continent(StructIn(s, "continent"))),
             Entry("country", Country(StructIn(s, "country"))),
             Entry("registered_country", Country(StructIn(s, "registered_country"))),
             Entry("represented_country", RepresentedCountry(StructIn(s, "represented_country"))),
             Entry("traits", CountryTraits(StructIn(s, "traits")))>>)

City(s) == MapValue(Uints32(s, <<"geoname_id">>) \o NamesEntry(s))

Location(s) ==
  MapValue(Uints16(s, <<"accuracy_radius">>) \o Floats64(s, <<"latitude", "longitude">>)
             \o Uints16(s, <<"metro_code">>) \o Strings(s, <<"time_zone">>))

(* Mutant: a name spelled otherwise than in the schema.                    *)
PostalMisspelled(s) == MapValue(<<Renamed(s, "postal_code", "code")>>)

Postal(s) == MapValue(Strings(s, <<"code">>))

Subdivision(s) ==
  MapValue(Uints32(s, <<"geoname_id">>) \o Strings(s, <<"iso_code">>) \o NamesEntry(s))

CityRecord(s) ==
  MapValue(<<Entry("city", City(StructIn(s, "city"))),
             Entry("continent", Continent(StructIn(s, "continent"))),
             Entry("country", Country(StructIn(s, "country"))),
             Entry("location", Location(StructIn(s, "location"))),
             Entry("postal", Postal(StructIn(s, "postal"))),
             Entry("registered_country", Country(StructIn(s, "registered_country"))),
             Entry("represented_country", RepresentedCountry(StructIn(s, "represented_country"))),
             Entry("subdivisions", ListValue([i \in 1 .. Len(ItemsIn(s, "subdivisions")) |->
                                                Subdivision(ItemsIn(s, "subdivisions")[i])])),
             Entry("traits", CountryTraits(StructIn(s, "traits")))>>)

----------------------------------------------------------------------------

EnterpriseCity(s) ==
  MapValue(Uints8(s, <<"confidence">>) \o Uints32(s, <<"geoname_id">>) \o NamesEntry(s))

EnterpriseCountry(s) ==
  MapValue(Uints8(s, <<"confidence">>) \o Uints32(s, <<"geoname_id">>)
             \o Booleans(s, <<"is_in_european_union">>)
             \o Strings(s, <<"iso_code">>) \o NamesEntry(s))

EnterpriseLocation(s) ==
  MapValue(Uints16(s, <<"accuracy_radius">>) \o Floats64(s, <<"latitude", "longitude">>)
             \o Uints16(s, <<"metro_code">>) \o Strings(s, <<"time_zone">>))

(* Mutant: the struct of City is taken for that of Enterprise.             *)
EnterprisePostalAsCity(s) == Postal(s)

EnterprisePostal(s) == MapValue(Strings(s, <<"code">>) \o Uints8(s, <<"confidence">>))

EnterpriseSubdivision(s) ==
  MapValue(Uints8(s, <<"confidence">>) \o Uints32(s, <<"geoname_id">>)
             \o Strings(s, <<"iso_code">>) \o NamesEntry(s))

Asn(s) ==
  Uints32(s, <<"autonomous_system_number">>) \o Strings(s, <<"autonomous_system_organization">>)

EnterpriseTraits(s) ==
  MapValue(Asn(s) \o Strings(s, <<"connection_type", "domain">>)
    \o Booleans(s, <<"is_anonymous", "is_anonymous_vpn", "is_anycast", "is_hosting_provider">>)
    \o Strings(s, <<"isp">>)
    \o Booleans(s, <<"is_public_proxy", "is_residential_proxy", "is_tor_exit_node">>)
    \o Strings(s, <<"mobile_country_code", "mobile_network_code", "organization", "user_type">>))

EnterpriseRecord(s) ==
  MapValue(<<Entry("city", EnterpriseCity(StructIn(s, "city"))),
             Entry("continent", Continent(StructIn(s, "continent"))),
             Entry("country", EnterpriseCountry(StructIn(s, "country"))),
             Entry("location", EnterpriseLocation(StructIn(s, "location"))),
             Entry("postal", EnterprisePostal(StructIn(s, "postal"))),
             Entry("registered_country", EnterpriseCountry(StructIn(s, "registered_country"))),
             Entry("represented_country", RepresentedCountry(StructIn(s, "represented_country"))),
             Entry("subdivisions", ListValue([i \in 1 .. Len(ItemsIn(s, "subdivisions")) |->
                                      EnterpriseSubdivision(ItemsIn(s, "subdivisions")[i])])),
             Entry("traits", EnterpriseTraits(StructIn(s, "traits")))>>)

IspRecord(s) ==
  MapValue(Asn(s)
    \o Strings(s, <<"isp", "mobile_country_code", "mobile_network_code", "organization">>))

ConnectionTypeRecord(s) == MapValue(Strings(s, <<"connection_type">>))

AnonymousIpRecord(s) ==
  MapValue(Booleans(s, <<"is_anonymous", "is_anonymous_vpn", "is_hosting_provider",
                         "is_public_proxy", "is_residential_proxy", "is_tor_exit_node">>))

DensityIncomeRecord(s) == MapValue(Uints32(s, <<"average_income", "population_density">>))

DomainRecord(s) == MapValue(Strings(s, <<"domain">>))

AsnRecord(s) == MapValue(Asn(s))

(* decode_known                                                            *)
DecodeKnown(k, s) ==
  CASE k = "City"           -> CityRecord(s)
    [] k = "Country"        -> CountryRecord(s)
    [] k = "Enterprise"     -> EnterpriseRecord(s)
    [] k = "Isp"            -> IspRecord(s)
    [] k = "ConnectionType" -> ConnectionTypeRecord(s)
    [] k = "AnonymousIp"    -> AnonymousIpRecord(s)
    [] k = "DensityIncome"  -> DensityIncomeRecord(s)
    [] k = "Domain"         -> DomainRecord(s)
    [] k = "Asn"            -> AsnRecord(s)

----------------------------------------------------------------------------

Init ==
  /\ type \in TypesInUse
  /\ record \in RecordsOf(KnownSchema(type))
  /\ stage = "resolve" /\ dtype = NoDtype /\ known = NoRecord
  /\ value = None /\ cell = None

(* resolve_record_dtype without a dtype.                                   *)
Resolve ==
  /\ stage = "resolve"
  /\ stage' = "decode"
  /\ dtype' = KnownSchema(type)
  /\ known' = FromDatabaseType(type)
  /\ UNCHANGED <<type, record, value, cell>>

(* The dtype is the whole schema, so the record is one of maxminddb's      *)
(* structs if there is a struct for it.                                    *)
DecodeStruct ==
  /\ stage = "decode" /\ known # NoRecord
  /\ stage' = "build"
  /\ value' = DecodeKnown(known, record)
  /\ UNCHANGED <<type, record, dtype, known, cell>>

DecodeBySchema ==
  /\ stage = "decode" /\ known = NoRecord
  /\ stage' = "build"
  /\ value' = Decoded[dtype]["leaves"][record]
  /\ UNCHANGED <<type, record, dtype, known, cell>>

(* decoded_values_to_series of the one value.                              *)
BuildCell ==
  /\ stage = "build"
  /\ IF value \in Buildable[dtype]
     THEN stage' = "done" /\ cell' = Cell[dtype][value]
     ELSE stage' = "error" /\ UNCHANGED cell
  /\ UNCHANGED <<type, record, dtype, known, value>>

Returned == stage \in {"done", "error"} /\ UNCHANGED vars

Next == Resolve \/ DecodeStruct \/ DecodeBySchema \/ BuildCell \/ Returned

Spec == Init /\ [][Next]_vars

----------------------------------------------------------------------------

(* maxminddb's structs are only a shorter way: a known record comes out as *)
(* decoding it by its schema would have it, whatever it has or lacks, so   *)
(* that asking for a part of the schema, which does decode by schema, gets *)
(* the same data as asking for none.                                       *)
StructsAgreeWithSchema ==
  stage \in {"done", "error"} =>
    stage = "done" /\ \A way \in Ways : cell = Cell[dtype][Decoded[dtype][way][record]]

(* What a struct is converted to is the cell already: nothing is dropped   *)
(* for want of a field in the schema, filled in, moved or converted to fit *)
(* a column.                                                               *)
NothingDropped == stage = "done" /\ known # NoRecord => cell = value

(* Paths to the scalars of a schema, with any index for the lists on the   *)
(* way that can be converted.                                              *)
ScalarPaths[d \in Dtype] ==
  CASE d.type = "struct" ->
         UNION {{<<Key(d.fields[i].name)>> \o p : p \in ScalarPaths[d.fields[i].dtype]} :
                  i \in 1 .. Len(d.fields)}
    [] d.type = "list" ->
         {<<Index(k)>> \o p : k \in {j \in IndexMin .. IndexMax : ConvertsPart(Index(j))},
                             p \in ScalarPaths[d.inner]}
    [] OTHER -> {<<>>}

(* lookup_path() of a scalar: what it resolves to, and what it gets.       *)
PathCell(path) ==
  LET at == Navigate(record, ToMmdbPath(path))
      d == DtypeAtPath(dtype, path)
  IN  Cell[d][IF at = None THEN None ELSE Decoded[d]["leaves"][at]]

(* A scalar asked for by its path is the one that a whole record has there.*)
PathsAgreeWithRecord ==
  stage = "done" =>
    \A path \in ScalarPaths[dtype] :
      LET inCell == Navigate(cell, ToMmdbPath(path))
      IN  PathCell(path) = IF inCell = None THEN Null ELSE inCell

=============================================================================
