---------------------------- MODULE TypeCatalog ----------------------------
(***************************************************************************)
(* The catalog of column types, NOT NULL columns and keys that the         *)
(* translator consults: how loadTypeCatalog fills it from the declarations *)
(* of a database, what its lookups answer, and what they claim about rows  *)
(* that come and go while the SQL text made with it is in use.             *)
(*                                                                         *)
(* The loader reads three kinds of result sets, row by row, and any of     *)
(* them may fail after a part.  A failure in the first sweep discards the  *)
(* catalog (main.cpp), one in the sweep of the keys or in the description  *)
(* of a view only loses that part.                                         *)
(*                                                                         *)
(* A database is a record [tables, views]: a table declares its schema,    *)
(* name, columns, NOT NULL columns, named constraints and, for the model,  *)
(* the rows that may be stored; a view is a query text with the table and  *)
(* columns it selects.  A value is a record [type, num, dec]: its number   *)
(* and the decimals its text shows.  A string is a number's text as well,  *)
(* so that texts of all types compare.                                     *)
(***************************************************************************)
EXTENDS Naturals, Sequences, FiniteSets, Functions

CONSTANTS
  Cases,      (* [db, mapping]: a database with its declarations and the   *)
              (* sequence of the logical tables that a mapping reads       *)
  Folded,     (* names and columns in lower case (SQL compares them so)    *)
  NULL,       (* the SQL NULL                                              *)
  NoType,     (* the empty string as an answer of typeOf                   *)
  Int32Max,   (* the largest number an int32_t holds                       *)
  Unit,       (* the number that stands for one                            *)
  Grain,      (* the spacing of the numbers that six decimals show         *)
  MaxRows     (* bound on the rows of a table                              *)

ASSUME UnitAssumption == Unit \in Nat \ {0} /\ Grain \in Nat \ {0}

VARIABLES
  db, mapping, phase,
  sweep,      (* rows of the current result set still to be read           *)
  keys,       (* loadUniqueKeys' map: <<table, constraint, column>>        *)
  described,  (* loadViewTypes' map: column |-> type                       *)
  catalog, rows

vars == << db, mapping, phase, sweep, keys, described, catalog, rows >>

Empty == "empty"   (* the empty string                                     *)

SameName(a, b) == Folded[a] = Folded[b]
SameIdentity(a, b) == a[1] = b[1] /\ a[2] = b[2] /\ SameName(a[3], b[3])

(* SQL: the columns of a table differ when case is ignored, constraints    *)
(* are on them.                                                            *)
ASSUME CasesAssumption ==
  \A case \in Cases :
    /\ IsFiniteSet(case.db.tables)
    /\ \A t \in case.db.tables :
         /\ \A a, b \in DOMAIN t.types : SameName(a, b) => a = b
         /\ \A k \in t.keys : k.columns \subseteq DOMAIN t.types

(* SQL: a name in a schema is that of one table, a stored row has a value  *)
(* of the declared type or NULL in every column, an INTEGER has 32 bits,   *)
(* and a query selects what it selects however its letters are written.    *)
ASSUME RowsAssumption ==
  \A case \in Cases :
    /\ \A t, u \in case.db.tables : t.schema = u.schema /\ SameName(t.name, u.name) => t = u
    /\ \A t \in case.db.tables : \A r \in t.pool :
         /\ DOMAIN r = DOMAIN t.types
         /\ \A c \in DOMAIN r : r[c] # NULL =>
              /\ r[c].type = t.types[c]
              /\ r[c].type.base = "INTEGER" => ~(r[c].num > Int32Max * Unit)
    /\ \A v, w \in case.db.views :
         SameName(v.query, w.query) => v.table = w.table /\ v.columns = w.columns
    /\ \A v \in case.db.views : \A t \in case.db.tables :
         t.name = v.table /\ t.schema = "main" => v.columns \subseteq DOMAIN t.types

-----------------------------------------------------------------------------
(* Logical tables and their keys in the catalog.  A base table is named as *)
(* the mapping spells it, with a schema or without; the identity of a view *)
(* keeps what ends its text, a semicolon or nothing; the text to describe  *)
(* does not.                                                               *)
Identity(lt) ==
  IF lt.kind = "table" THEN << "table", lt.schema, lt.name >>
  ELSE << "view", lt.end, lt.name >>

ReportedName(name) == << "table", Empty, name >>

(* Where the mapping first has each identity that is a view with a query.  *)
ViewSources(m) ==
  { i \in DOMAIN m : /\ m[i].kind = "view" /\ m[i].name # Empty
                     /\ \A j \in 1 .. i - 1 : Identity(m[j]) # Identity(m[i]) }

(* The table that SQL reads for a logical table: by an unqualified name    *)
(* the one in the default schema.                                          *)
TablesOf(d, lt) ==
  IF lt.kind = "table"
    THEN { t \in d.tables : /\ t.schema = (IF lt.schema = Empty THEN "main" ELSE lt.schema)
                            /\ SameName(t.name, lt.name) }
    ELSE UNION { { t \in d.tables : t.name = v.table /\ t.schema = "main" }
                   : v \in { w \in d.views : w.query = lt.name } }

ColumnsOf(d, lt) ==
  IF lt.kind = "table" THEN UNION { DOMAIN t.types : t \in TablesOf(d, lt) }
  ELSE UNION { v.columns : v \in { w \in d.views : w.query = lt.name } }

Extent(lt) == UNION { rows[t] : t \in TablesOf(db, lt) }

-----------------------------------------------------------------------------
(* What information_schema reports: of every schema, without saying which; *)
(* a backend may leave is_nullable out.                                    *)
ColumnRows(d) ==
  UNION { { [table |-> t.name, column |-> c, type |-> t.types[c], no |-> c \in t.notNull]
              : c \in DOMAIN t.types } : t \in d.tables }

(* The constraints of all tables joined to their columns by the name of    *)
(* the constraint alone.                                                   *)
Constraints(d) == UNION { { << t.name, k >> : k \in t.keys } : t \in d.tables }

KeyRows(d) ==
  UNION { { << a[1], a[2].name, c >> : c \in UNION { b[2].columns : b \in
              { b \in Constraints(d) : b[2].name = a[2].name } } } : a \in Constraints(d) }

ViewRows(d, lt) ==
  { << c, (CHOOSE t \in TablesOf(d, lt) : TRUE).types[c] >> : c \in ColumnsOf(d, lt) }

-----------------------------------------------------------------------------
(* The lookups.  If names of two schemas differ in case only, the first    *)
(* one in the order of the map answers; the model takes some one.          *)
TypeOfColumn(cat, id, col) ==
  LET hits == { k \in DOMAIN cat.types : SameIdentity(k[1], id) /\ SameName(k[2], col) } IN
  IF hits = {} THEN NoType ELSE cat.types[CHOOSE k \in hits : TRUE]

IsNotNull(cat, id, col) ==
  \E k \in cat.notNull : SameIdentity(k[1], id) /\ SameName(k[2], col)

Covers(key, cols) == \A c \in key : \E have \in cols : SameName(have, c)

CoversUniqueKey(cat, id, cols) ==
  \E k \in cat.keys : SameIdentity(k[1], id) /\ k[2] # {} /\ Covers(k[2], cols)

CategoryOfNumbers(type) ==   \* variant: one category for all numbers
  CASE type.base \in {"INTEGER", "UINTEGER", "BIGINT", "DOUBLE", "DECIMAL"} -> "Integer"
    [] type.base = "VARCHAR" -> "String"
    [] OTHER -> "Other"

Category(type) ==
  CASE type.base \in {"INTEGER", "UINTEGER", "BIGINT"} -> "Integer"
    [] type.base \in {"DOUBLE", "DECIMAL"} -> "Float"
    [] type.base = "VARCHAR" -> "String"
    [] OTHER -> "Other"

Comparable(cat, id1, c1, id2, c2) ==
  LET a == TypeOfColumn(cat, id1, c1)
      b == TypeOfColumn(cat, id2, c2)
  IN a # NoType /\ b # NoType /\ Category(a) # "Other" /\ Category(a) = Category(b)

-----------------------------------------------------------------------------
(* Values.  SqlText is CAST(... AS VARCHAR) of the translator, Text what   *)
(* the connection hands to the term maps; Failure is its conversion error. *)
Decimals(v) ==
  CASE v.type.base = "DECIMAL" -> v.type.scale
    [] v.type.base = "DOUBLE" -> IF v.num % Unit = 0 THEN 1 ELSE 2
    [] v.type.base = "VARCHAR" -> v.dec
    [] OTHER -> 0

SqlText(v) == << v.num, Decimals(v) >>

Failure == << 0, 0 - 1 >>

SixDecimals(n) == << ((n + Grain \div 2) \div Grain) * Grain, 6 >>

TextWide(v) ==   \* variant: BIGINT through int32_t as well
  CASE v.type.base \in {"INTEGER", "UINTEGER", "BIGINT"} /\ v.num > Int32Max * Unit -> Failure
    [] v.type.base = "DOUBLE" -> SixDecimals(v.num)
    [] OTHER -> SqlText(v)

Text(v) ==
  CASE v.type.base \in {"INTEGER", "UINTEGER"} /\ v.num > Int32Max * Unit -> Failure
    [] v.type.base = "DOUBLE" -> SixDecimals(v.num)
    [] OTHER -> SqlText(v)

NativelyEqual(v, w) ==
  IF v.type.base = "VARCHAR" THEN SqlText(v) = SqlText(w) ELSE v.num = w.num

(* naturalXsdDatatype, for a column, and SQLValue::datatypeIRI, which the   *)
(* connection's values do not override, for a value: a plain literal.      *)
NaturalDatatype(type) ==
  CASE type.base \in {"INTEGER", "UINTEGER", "BIGINT"} -> "xsd:integer"
    [] type.base = "DOUBLE" -> "xsd:double"
    [] type.base = "DECIMAL" -> "xsd:decimal"
    [] OTHER -> "xsd:string"

DatatypeOf(v) == "xsd:string"

-----------------------------------------------------------------------------
NoCatalog == [types |-> << >>, notNull |-> {}, keys |-> {}]

Init ==
  /\ \E c \in Cases : db = c.db /\ mapping = c.mapping
  /\ phase = << "columns", 0 >> /\ sweep = ColumnRows(db)
  /\ keys = {} /\ described = << >> /\ catalog = NoCatalog
  /\ rows = [t \in db.tables |-> {}]

(* Assignments to a map by key: what it held under the key is replaced.    *)
PutAll(new, map) ==
  [k \in DOMAIN new \cup DOMAIN map |-> IF k \in DOMAIN new THEN new[k] ELSE map[k]]

Put(key, value, map) == PutAll([k \in {key} |-> value], map)

(* loadBaseTableTypes.  A type that is known already is overwritten.       *)
ReadColumn ==
  /\ phase = << "columns", 0 >>
  /\ \E r \in sweep, nullable \in {"reported", "missing"} :
       /\ sweep' = sweep \ {r}
       /\ catalog' = [catalog EXCEPT
            !.types = Put(<< ReportedName(r.table), r.column >>, r.type, @),
            !.notNull = IF r.no /\ nullable = "reported"
                          THEN @ \union {<< ReportedName(r.table), r.column >>} ELSE @]
  /\ UNCHANGED << db, mapping, phase, keys, described, rows >>

FailColumns ==
  /\ phase = << "columns", 0 >>
  /\ phase' = << "discarded", 0 >>
  /\ UNCHANGED << db, mapping, sweep, keys, described, catalog, rows >>

EndColumns ==
  /\ phase = << "columns", 0 >> /\ sweep = {}
  /\ phase' = << "keys", 0 >> /\ sweep' = KeyRows(db)
  /\ UNCHANGED << db, mapping, keys, described, catalog, rows >>

(* loadUniqueKeys: the rows of a key need not be adjacent.                 *)
KeysOf(found) ==
  { << ReportedName(k[1]), { r[3] : r \in { r \in found : r[1] = k[1] /\ r[2] = k[2] } } >> : k \in found }

ReadKeyInPlace ==   \* variant: a key enters the catalog as its rows are read
  /\ phase = << "keys", 0 >>
  /\ \E r \in sweep : /\ sweep' = sweep \ {r}
                      /\ keys' = keys \union {r}
                      /\ catalog' = [catalog EXCEPT !.keys = KeysOf(keys \union {r})]
  /\ UNCHANGED << db, mapping, phase, described, rows >>

ReadKey ==
  /\ phase = << "keys", 0 >>
  /\ \E r \in sweep : sweep' = sweep \ {r} /\ keys' = keys \union {r}
  /\ UNCHANGED << db, mapping, phase, described, catalog, rows >>

(* The views come after the keys, whether these were read or not.          *)
DescribeAfter(i) ==
  LET left == { j \in ViewSources(mapping) : j > i } IN
  \/ left = {} /\ phase' = << "ready", 0 >> /\ sweep' = {}
  \/ \E j \in left : /\ \A k \in left : j <= k
                     /\ phase' = << "view", j >> /\ sweep' = ViewRows(db, mapping[j])

EndKeys ==
  /\ phase = << "keys", 0 >> /\ sweep = {}
  /\ catalog' = [catalog EXCEPT !.keys = KeysOf(keys)]
  /\ keys' = {} /\ DescribeAfter(0)
  /\ UNCHANGED << db, mapping, described, rows >>

FailKeys ==
  /\ phase = << "keys", 0 >>
  /\ keys' = {} /\ DescribeAfter(0)
  /\ UNCHANGED << db, mapping, described, catalog, rows >>

(* loadViewTypes: a column that is read again would not add to the map.    *)
ReadViewColumn ==
  /\ phase[1] = "view"
  /\ \E r \in sweep : sweep' = sweep \ {r} /\ described' = Put(r[1], r[2], described)
  /\ UNCHANGED << db, mapping, phase, keys, catalog, rows >>

EndView ==
  /\ phase[1] = "view" /\ sweep = {}
  /\ LET id == Identity(mapping[phase[2]])
         of == [k \in { << id, c >> : c \in DOMAIN described } |-> described[k[2]]]
     IN catalog' = [catalog EXCEPT !.types = PutAll(of, @)]
  /\ described' = << >> /\ DescribeAfter(phase[2])
  /\ UNCHANGED << db, mapping, keys, rows >>

FailViewLeaking ==   \* variant: the columns read so far are left for the next view
  /\ phase[1] = "view"
  /\ DescribeAfter(phase[2])
  /\ UNCHANGED << db, mapping, keys, described, catalog, rows >>

FailView ==
  /\ phase[1] = "view"
  /\ described' = << >> /\ DescribeAfter(phase[2])
  /\ UNCHANGED << db, mapping, keys, catalog, rows >>

-----------------------------------------------------------------------------
(* main.cpp passes the catalog on when nothing was thrown.                 *)
Usable == phase[1] = "ready"

(* The rows come and go under the declarations once the text is made;      *)
(* loading reads none of them.                                             *)
Agree(r1, r2, cols) == \A c \in cols : r1[c] # NULL /\ r1[c] = r2[c]

Admissible(t, r) ==
  /\ \A c \in t.notNull : r[c] # NULL
  /\ \A k \in t.keys, other \in rows[t] : ~Agree(r, other, k.columns)

Insert(t) ==
  /\ Usable /\ Cardinality(rows[t]) < MaxRows
  /\ \E r \in t.pool \ rows[t] : Admissible(t, r) /\ rows' = [rows EXCEPT ![t] = @ \union {r}]
  /\ UNCHANGED << db, mapping, phase, sweep, keys, described, catalog >>

Delete(t) ==
  /\ Usable
  /\ \E r \in rows[t] : rows' = [rows EXCEPT ![t] = @ \ {r}]
  /\ UNCHANGED << db, mapping, phase, sweep, keys, described, catalog >>

(* Without a catalog the translator makes no claims.                       *)
Discarded == phase[1] = "discarded" /\ UNCHANGED vars

Next ==
  \/ ReadColumn \/ FailColumns \/ EndColumns
  \/ ReadKey \/ FailKeys \/ EndKeys
  \/ ReadViewColumn \/ FailView \/ EndView
  \/ \E t \in db.tables : Insert(t) \/ Delete(t)
  \/ Discarded

Spec == Init /\ [][Next]_vars

-----------------------------------------------------------------------------
(* The maps hold reported columns and constraints, whatever has failed,    *)
(* and the local ones do not outlive the sweep they belong to.             *)
TypeOK ==
  /\ phase[1] \in {"columns", "keys", "view", "ready", "discarded"}
  /\ DOMAIN catalog.types \subseteq
       { << ReportedName(r.table), r.column >> : r \in ColumnRows(db) } \union
       UNION { { << Identity(lt), c >> : c \in ColumnsOf(db, lt) } : lt \in Range(mapping) }
  /\ catalog.notNull \subseteq { << ReportedName(r.table), r.column >> : r \in ColumnRows(db) }
  /\ keys \subseteq KeyRows(db)
  /\ keys # {} => phase[1] = "keys"
  /\ described # << >> => phase[1] = "view"
  /\ \A t \in db.tables : rows[t] \subseteq t.pool

(* The name is that of one table only; the catalog does not tell schemas   *)
(* apart (MCTypeCatalogOpen.cfg shows what follows).                       *)
OneSchema(lt) ==
  Cardinality({ t \in db.tables : lt.kind = "table" /\ SameName(t.name, lt.name) }) <= 1

Spellings(c) == { n \in DOMAIN Folded : SameName(n, c) }

(* A null guard that the catalog lets the translator drop was vacuous: a   *)
(* column that isNotNull affirms is never NULL, in whatever rows come and  *)
(* whichever part of the catalog could be read (TypeCatalog.h:52).         *)
NotNullHolds(lt) ==
  \A c \in ColumnsOf(db, lt) : \A n \in Spellings(c) :
    IsNotNull(catalog, Identity(lt), n) => \A r \in Extent(lt) : r[c] # NULL

NotNullClaimsHold == Usable => \A lt \in Range(mapping) : OneSchema(lt) => NotNullHolds(lt)

(* A DISTINCT that the catalog lets the optimizer drop was vacuous: columns *)
(* that coversUniqueKey affirms tell the rows apart in which none of them  *)
(* is NULL, also when constraints share a name and when the sweep of the   *)
(* keys broke off in the middle of a composite key (TypeCatalog.h:57).     *)
KeysHold(lt) ==
  \A cols \in SUBSET ColumnsOf(db, lt) :
    CoversUniqueKey(catalog, Identity(lt), cols) =>
      \A r1, r2 \in Extent(lt) : Agree(r1, r2, cols) => r1 = r2

KeyClaimsHold == Usable => \A lt \in Range(mapping) : OneSchema(lt) => KeysHold(lt)

(* Neither of the two omissions changes an answer.                         *)
ClaimsHold == NotNullClaimsHold /\ KeyClaimsHold

(* The same without regard to schemas: what TypeCatalog.h says of a name   *)
(* holds for the table that the SQL reads by it.                           *)
ClaimsAreDeclared == Usable => \A lt \in Range(mapping) : NotNullHolds(lt) /\ KeysHold(lt)

-----------------------------------------------------------------------------
(* All columns of the mapping's logical tables that hold a value now.      *)
Stored(lt, c) == { r[c] : r \in Extent(lt) } \ {NULL}

Lexical(lt1, c1, lt2, c2) ==
  \A v \in Stored(lt1, c1), w \in Stored(lt2, c2) : NativelyEqual(v, w) <=> SqlText(v) = SqlText(w)

(* Two Float types that differ show one number differently.                *)
ShownDifferently(a, b) == Category(a) = "Float" /\ a # b

(* A join key that loses its VARCHAR cast, of columns in any two logical   *)
(* tables, joins the same rows as before (TypeCatalog.h:71), but for       *)
(* different Float types.                                                  *)
ComparableIsLexical ==
  Usable => \A lt1, lt2 \in { lt \in Range(mapping) : OneSchema(lt) } :
    \A c1 \in ColumnsOf(db, lt1), c2 \in ColumnsOf(db, lt2) :
      /\ Comparable(catalog, Identity(lt1), c1, Identity(lt2), c2)
      /\ ~ShownDifferently(TypeOfColumn(catalog, Identity(lt1), c1), TypeOfColumn(catalog, Identity(lt2), c2))
      => Lexical(lt1, c1, lt2, c2)

(* The same without the exception.                                         *)
ComparableAsText ==
  Usable => \A lt1, lt2 \in Range(mapping) :
    \A c1 \in ColumnsOf(db, lt1), c2 \in ColumnsOf(db, lt2) :
      Comparable(catalog, Identity(lt1), c1, Identity(lt2), c2) => Lexical(lt1, c1, lt2, c2)

(* The conversion writes the text that the translated SQL compares with,   *)
(* but for floating-point numbers, which it shows with six decimals, and   *)
(* unsigned 32-bit numbers beyond int32_t, which it cannot read.           *)
TextsAgree ==
  \A t \in db.tables : \A r \in rows[t] : \A c \in { c \in DOMAIN r : r[c] # NULL } :
    \/ Text(r[c]) = SqlText(r[c])
    \/ r[c].type.base = "DOUBLE"
    \/ r[c].type.base = "UINTEGER" /\ r[c].num > Int32Max * Unit

(* The datatype that DATATYPE() answers from the catalog is that of the    *)
(* literal which the conversion writes for the row (SQLValue.h:27).        *)
NaturalDatatypesAgree ==
  Usable => \A lt \in Range(mapping) : \A c \in ColumnsOf(db, lt) :
    \A v \in Stored(lt, c) :
      LET type == TypeOfColumn(catalog, Identity(lt), c) IN
      type # NoType => NaturalDatatype(type) = DatatypeOf(v)
=============================================================================
