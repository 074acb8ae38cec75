--------------------------- MODULE MCTypeCatalog ---------------------------
(***************************************************************************)
(* Databases whose declarations make the lookups differ: names in other    *)
(* cases, a composite key beside a plain one of the same name, nullable    *)
(* keys, views with and without a semicolon, numbers of every type.        *)
(***************************************************************************)
EXTENDS TypeCatalog

Type(base)       == [base |-> base, scale |-> 0]
DecimalType(s)   == [base |-> "DECIMAL", scale |-> s]
Value(type, n)   == [type |-> type, num |-> n, dec |-> 0]
TextValue(n, d)  == [type |-> Type("VARCHAR"), num |-> n, dec |-> d]

Table(schema, name, types, notNull, ks, pool) ==
  [schema |-> schema, name |-> name, types |-> types, notNull |-> notNull,
   keys |-> ks, pool |-> pool]
Key(name, columns) == [name |-> name, columns |-> columns]
View(query, table, columns) == [query |-> query, table |-> table, columns |-> columns]
BaseTable(schema, name) == [kind |-> "table", schema |-> schema, name |-> name, end |-> Empty]
ViewOf(query, end) == [kind |-> "view", schema |-> Empty, name |-> query, end |-> end]

Whole == Type("INTEGER")
I(n) == Value(Whole, n * Unit)
Big(n) == Value(Type("BIGINT"), n * Unit)

(* A key (a, b) and a key c of the same constraint name, as two tables may *)
(* have them, and a column that no constraint names.                       *)
Emp ==
  Table("main", "emp", [a |-> Whole, b |-> Whole, c |-> Whole], {"a"},
        {Key("k1", {"a", "b"}), Key("k2", {"c"})},
        [a : {I(1)}, b : {I(1), I(2), NULL}, c : {I(1), I(2), NULL}])
Dept ==
  Table("main", "dept", [a |-> Type("BIGINT"), b |-> Type("VARCHAR")], {"b"}, {Key("k2", {"a"})},
        [a : {Big(1), Big(5), NULL}, b : {TextValue(Unit, 0), TextValue(Unit, 1)}])
Keyed == [tables |-> {Emp, Dept}, views |-> {}]
KeyedMapping == << BaseTable(Empty, "EMP"), BaseTable("main", "dept"), BaseTable(Empty, "dept") >>

(* Every type, and views over them, one of which cannot be described.      *)
Sizes ==
  Table("main", "emp",
        [a |-> Type("UINTEGER"), b |-> Type("DOUBLE"), c |-> DecimalType(1)], {}, {},
        { [a |-> Value(Type("UINTEGER"), n * Unit), b |-> Value(Type("DOUBLE"), m),
           c |-> Value(DecimalType(1), Unit)] : n \in {1, 4}, m \in {Unit, Unit + Unit \div 2} })
Names ==
  Table("main", "dept", [a |-> DecimalType(2), b |-> Type("DATE"), c |-> Type("VARCHAR")], {"c"}, {},
        { [a |-> Value(DecimalType(2), Unit), b |-> Value(Type("DATE"), 1), c |-> TextValue(Unit, 1)],
          [a |-> NULL, b |-> NULL, c |-> TextValue(Unit, 0)] })
Typed == [tables |-> {Sizes, Names}, views |-> {View("q", "dept", {"a", "c"})}]
TypedMapping == << ViewOf("q", ";"), BaseTable(Empty, "EMP"), ViewOf("q", ";"), ViewOf("lost", Empty), ViewOf(Empty, ";") >>

MCFolded == [n \in {"emp", "EMP", "dept", "a", "A", "b", "c", "q", "lost", Empty} |->
  CASE n = "EMP" -> "emp" [] n = "A" -> "a" [] OTHER -> n]

Case(d, m) == [db |-> d, mapping |-> m]

MCCases == {Case(Keyed, KeyedMapping), Case(Typed, TypedMapping)}

(* One name in two schemas, of which only the other one has constraints.   *)
Archive == Table("archive", "emp", [a |-> Whole, b |-> Whole], {"a"}, {Key("k1", {"a"})}, {})
Current ==
  Table("main", "emp", [a |-> Whole, b |-> Whole], {}, {}, [a : {I(1), NULL}, b : {I(1), I(2)}])
SharedNames ==
  {Case([tables |-> {Archive, Current}, views |-> {}], << BaseTable(Empty, "emp") >>)}

DecimalCases == {Case(Typed, << BaseTable(Empty, "emp"), BaseTable(Empty, "dept") >>)}
NumberCases  == {Case(Keyed, << BaseTable(Empty, "dept") >>)}
OpenCases    == SharedNames \cup DecimalCases \cup NumberCases
=============================================================================
