---------------------------- MODULE KnownSchemas ----------------------------
(***************************************************************************)
(* The tables of src/schema.rs: the schema of each kind of MaxMind         *)
(* database, and the KnownRecord of those maxminddb has a struct for.      *)
(***************************************************************************)
EXTENDS SchemaResolution

(* A record, its subdivisions, one of them, its names, one of those.       *)
ASSUME KnownSchemasFit == MaxDepth >= 4

Bool == Scalar("boolean")
U8 == Scalar("uint8")
U16 == Scalar("uint16")
U32 == Scalar("uint32")
F64 == Scalar("float64")
Text == Scalar("string")

(* Fields of one dtype.                                                    *)
FieldsOf(names, dtype) == [i \in 1 .. Len(names) |-> Field(names[i], dtype)]

NamesSchema ==
  StructOf(FieldsOf(<<"de", "en", "es", "fr", "ja", "pt-BR", "ru", "zh-CN">>, Text))

NamesField == Field("names", NamesSchema)
GeonameIdField == Field("geoname_id", U32)
ConfidenceField == Field("confidence", U8)

ContinentSchema == StructOf(<<Field("code", Text), GeonameIdField, NamesField>>)

CountrySchema ==
  StructOf(<<GeonameIdField, Field("is_in_european_union", Bool),
             Field("iso_code", Text), NamesField>>)

(* Mutant: the field added for represented countries is forgotten.         *)
RepresentedCountryPlain == CountrySchema

RepresentedCountrySchema == StructOf(Append(CountrySchema.fields, Field("type", Text)))

CountryTraitsSchema == StructOf(<<Field("is_anycast", Bool)>>)

CountryRecordSchema ==
  StructOf(<<Field("continent", ContinentSchema),
             Field("country", CountrySchema),
             Field("registered_country", CountrySchema),
             Field("represented_country", RepresentedCountrySchema),
             Field("traits", CountryTraitsSchema)>>)

LocationSchema ==
  StructOf(<<Field("accuracy_radius", U16), Field("latitude", F64), Field("longitude", F64),
             Field("metro_code", U16), Field("time_zone", Text)>>)

SubdivisionSchema == StructOf(<<GeonameIdField, Field("iso_code", Text), NamesField>>)

CityRecordSchema ==
  StructOf(<<Field("city", StructOf(<<GeonameIdField, NamesField>>)),
             Field("continent", ContinentSchema),
             Field("country", CountrySchema),
             Field("location", LocationSchema),
             Field("postal", StructOf(<<Field("code", Text)>>)),
             Field("registered_country", CountrySchema),
             Field("represented_country", RepresentedCountrySchema),
             Field("subdivisions", ListOf(SubdivisionSchema)),
             Field("traits", CountryTraitsSchema)>>)

AsnSchema ==
  StructOf(<<Field("autonomous_system_number", U32),
             Field("autonomous_system_organization", Text)>>)

(* Enterprise structs begin with a confidence where City's have none.      *)
Confident(schema) == StructOf(<<ConfidenceField>> \o schema.fields)

EnterpriseTraitsSchema ==
  StructOf(AsnSchema.fields
    \o FieldsOf(<<"connection_type", "domain">>, Text)
    \o FieldsOf(<<"is_anonymous", "is_anonymous_vpn", "is_anycast", "is_hosting_provider">>, Bool)
    \o <<Field("isp", Text)>>
    \o FieldsOf(<<"is_public_proxy", "is_residential_proxy", "is_tor_exit_node">>, Bool)
    \o FieldsOf(<<"mobile_country_code", "mobile_network_code", "organization", "user_type">>,
                Text))

EnterpriseRecordSchema ==
  StructOf(<<Field("city", Confident(StructOf(<<GeonameIdField, NamesField>>))),
             Field("continent", ContinentSchema),
             Field("country", Confident(CountrySchema)),
             Field("location", LocationSchema),
             Field("postal", StructOf(<<Field("code", Text), ConfidenceField>>)),
             Field("registered_country", Confident(CountrySchema)),
             Field("represented_country", RepresentedCountrySchema),
             Field("subdivisions", ListOf(Confident(SubdivisionSchema))),
             Field("traits", EnterpriseTraitsSchema)>>)

IspSchema ==
  StructOf(AsnSchema.fields
    \o FieldsOf(<<"isp", "mobile_country_code", "mobile_network_code", "organization">>, Text))

AnonymousIpSchema ==
  StructOf(FieldsOf(<<"is_anonymous", "is_anonymous_vpn", "is_hosting_provider",
                      "is_public_proxy", "is_residential_proxy", "is_tor_exit_node">>, Bool))

ResidentialProxySchema ==
  StructOf(<<Field("anonymizer_confidence", U16),
             Field("network_last_seen", Text), Field("provider_name", Text)>>)

AnonymousPlusSchema == StructOf(AnonymousIpSchema.fields \o ResidentialProxySchema.fields)

IpRiskSchema == StructOf(<<Field("ip_risk", F64)>> \o AnonymousPlusSchema.fields)

UserCountSchema ==
  StructOf(FieldsOf(<<"ipv4_24", "ipv4_32", "ipv6_32", "ipv6_48", "ipv6_64">>, U32))

----------------------------------------------------------------------------

NoRecord == "none"

(* The database types of each KnownRecord ...                              *)
TypesOf == [
  City           |-> {"GeoIP2-City", "GeoLite2-City", "GeoIP2-City-Shield"},
  Country        |-> {"GeoIP2-Country", "GeoLite2-Country", "GeoIP2-Country-Shield"},
  Enterprise     |-> {"GeoIP2-Enterprise", "GeoIP2-Enterprise-Shield",
                      "GeoIP2-Precision-Enterprise", "GeoIP2-Precision-Enterprise-Shield"},
  Isp            |-> {"GeoIP2-ISP"},
  ConnectionType |-> {"GeoIP2-Connection-Type"},
  AnonymousIp    |-> {"GeoIP2-Anonymous-IP"},
  DensityIncome  |-> {"GeoIP2-DensityIncome"},
  Domain         |-> {"GeoIP2-Domain"},
  Asn            |-> {"GeoIP2-ASN", "GeoLite2-ASN"}]

(* ... looked up by database type ...                                      *)
FromDatabaseType(type) ==
  IF \E record \in DOMAIN TypesOf : type \in TypesOf[record]
  THEN CHOOSE record \in DOMAIN TypesOf : type \in TypesOf[record]
  ELSE NoRecord

(* ... its schema() ...                                                    *)
RecordSchema == [
  City           |-> CityRecordSchema,
  Country        |-> CountryRecordSchema,
  Enterprise     |-> EnterpriseRecordSchema,
  Isp            |-> IspSchema,
  ConnectionType |-> StructOf(<<Field("connection_type", Text)>>),
  AnonymousIp    |-> AnonymousIpSchema,
  DensityIncome  |-> StructOf(FieldsOf(<<"average_income", "population_density">>, U32)),
  Domain         |-> StructOf(<<Field("domain", Text)>>),
  Asn            |-> AsnSchema]

(* ... and the types that have a schema only.                              *)
SchemaOnly ==
  [type \in {"GeoIP-Residential-Proxy", "GeoIP-Anonymous-Plus", "GeoIP2-IP-Risk",
             "GeoIP2-Static-IP-Score", "GeoIP2-User-Count"} |->
     CASE type = "GeoIP-Residential-Proxy" -> ResidentialProxySchema
       [] type = "GeoIP-Anonymous-Plus"    -> AnonymousPlusSchema
       [] type = "GeoIP2-IP-Risk"          -> IpRiskSchema
       [] type = "GeoIP2-Static-IP-Score"  -> StructOf(<<Field("score", F64)>>)
       [] type = "GeoIP2-User-Count"       -> UserCountSchema]

KnownSchema(type) ==
  IF type \in DOMAIN SchemaOnly THEN SchemaOnly[type]
  ELSE IF FromDatabaseType(type) # NoRecord THEN RecordSchema[FromDatabaseType(type)]
  ELSE NoDtype

DatabaseTypes == DOMAIN SchemaOnly \cup UNION {TypesOf[record] : record \in DOMAIN TypesOf}

(* The names of the fields.  That they are strings is a matter of course,  *)
(* but not to the provers.                                                 *)
FieldNames ==
  {"accuracy_radius", "anonymizer_confidence", "autonomous_system_number",
   "autonomous_system_organization", "average_income", "city", "code", "confidence",
   "connection_type", "continent", "country", "de", "domain", "en", "es", "fr",
   "geoname_id", "ip_risk", "ipv4_24", "ipv4_32", "ipv6_32", "ipv6_48", "ipv6_64",
   "is_anonymous", "is_anonymous_vpn", "is_anycast", "is_hosting_provider",
   "is_in_european_union", "is_public_proxy", "is_residential_proxy", "is_tor_exit_node",
   "iso_code", "isp", "ja", "latitude", "location", "longitude", "metro_code",
   "mobile_country_code", "mobile_network_code", "names", "network_last_seen",
   "organization", "population_density", "postal", "provider_name", "pt-BR",
   "registered_country", "represented_country", "ru", "score", "subdivisions", "time_zone",
   "traits", "type", "user_type", "zh-CN"}

ASSUME NamesAreStrings == FieldNames \subseteq STRING

=============================================================================
