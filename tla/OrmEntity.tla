----------------------------- MODULE OrmEntity -----------------------------
(***************************************************************************)
(* The values of crates/orm: how entity.rs turns the values of a query     *)
(* into the WASI data types of the host, and the columns of a row into the *)
(* fields of an entity.  A value is a type and a content; what a type's    *)
(* content looks like is left out, but for NULL.                           *)
(***************************************************************************)
EXTENDS Integers, Sequences, SequencesExt

CONSTANT Null     \* the content of a value that is NULL

Typed(type, v) == [type |-> type, v |-> v]

(* The types of FetchValue, and the SeaQuery type each one becomes. *)
SeaType ==
    [bool |-> "Bool", i32 |-> "Int", i64 |-> "BigInt", u32 |-> "Unsigned",
     u64 |-> "BigUnsigned", f32 |-> "Float", f64 |-> "Double",
     string |-> "String", bytes |-> "Bytes", date |-> "ChronoDate",
     timestamp |-> "ChronoDateTimeUtc", json |-> "Json"]

FieldType == DOMAIN SeaType

(* The integers widen to the four that WASI has, text takes in characters. *)
WasiType(t) ==
    CASE t = "Bool" -> "Boolean"
      [] t \in {"TinyInt", "SmallInt", "Int"} -> "Int32"
      [] t = "BigInt" -> "Int64"
      [] t \in {"TinyUnsigned", "SmallUnsigned", "Unsigned"} -> "Uint32"
      [] t = "BigUnsigned" -> "Uint64"
      [] t \in {"Float", "Double"} -> t
      [] t \in {"String", "Char"} -> "Str"
      [] t = "Bytes" -> "Binary"
      [] t = "ChronoDate" -> "Date"
      [] t = "ChronoTime" -> "Time"
      [] t \in {"ChronoDateTime", "ChronoDateTimeUtc"} -> "Timestamp"
      [] OTHER -> "unsupported"

ToWasiParam(value) == [value EXCEPT !.type = WasiType(@)]

(* to_wasi_params: one value of another type and the statement is not built. *)
Convertible(types) == \A t \in types : WasiType(t) # "unsupported"

(* The data types fetch takes for a field: by the table of fetch!, and by the
   functions that parse dates, timestamps and JSON. *)
Fetchable ==
    [bool |-> {"Boolean"}, i32 |-> {"Int32"}, i64 |-> {"Int64"},
     u32 |-> {"Uint32"}, u64 |-> {"Uint64"}, f32 |-> {"Float"},
     f64 |-> {"Double"}, string |-> {"Str"}, bytes |-> {"Binary"},
     date |-> {"Date"}, timestamp |-> {"Timestamp"}, json |-> {"Str", "Binary"}]

NullTypes ==
    {"Boolean", "Int32", "Int64", "Uint32", "Uint64", "Float", "Double", "Str",
     "Binary", "Date", "Time", "Timestamp"}

(* Mutant: the NULL of one data type is forgotten. *)
IsNullButTime(d) == d.v = Null /\ d.type \in NullTypes \ {"Timestamp"}

IsNull(d) == d.v = Null /\ d.type \in NullTypes

(***************************************************************************)
(* entity!: a table, fields in order, the fields that come from columns of *)
(* joined tables, and the joins.                                           *)
(***************************************************************************)
Field(name, type, optional) ==
    [name |-> name, type |-> type, optional |-> optional]

Fetches(f, row) ==
    /\ f.name \in DOMAIN row
    /\ \/ f.optional /\ IsNull(row[f.name])
       \/ row[f.name].v # Null /\ row[f.name].type \in Fetchable[f.type]

Failed == [failed |-> TRUE]

FromRow(entity, row) ==
    IF \A f \in Range(entity.fields) : Fetches(f, row)
      THEN [name \in {f.name : f \in Range(entity.fields)} |-> row[name].v]
      ELSE Failed

(* __to_values: a column and a value for every field, in order. *)
ToValues(entity, object) ==
    [i \in DOMAIN entity.fields |->
       LET f == entity.fields[i]
       IN  [column |-> f.name, value |-> Typed(SeaType[f.type], object[f.name])]]

=============================================================================
