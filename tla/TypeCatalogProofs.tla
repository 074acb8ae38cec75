--------------------------- MODULE TypeCatalogProofs ---------------------------
(***************************************************************************)
(* What the catalog claims holds in every database, however much of it     *)
(* could be read and whatever rows are stored.                             *)
(***************************************************************************)
EXTENDS TypeCatalog, FiniteSetTheorems, TLAPS

(* What information_schema can say at most.                                *)
DeclaredNotNull == { << ReportedName(r.table), r.column >> : r \in { r \in ColumnRows(db) : r.no } }

(* The rows stored obey the declarations.                                  *)
Obeyed ==
  /\ DOMAIN rows = db.tables
  /\ \A t \in db.tables : \A r \in rows[t] : \A c \in t.notNull : r[c] # NULL
  /\ \A t \in db.tables : \A k \in t.keys : \A r1, r2 \in rows[t] : Agree(r1, r2, k.columns) => r1 = r2

(* What has been read is declared, and of the keys nothing is missing      *)
(* unless their sweep was given up.                                        *)
Read ==
  /\ DOMAIN catalog = {"types", "notNull", "keys"}
  /\ catalog.notNull \subseteq DeclaredNotNull
  /\ catalog.keys \subseteq KeysOf(KeyRows(db))
  /\ phase = << "columns", 0 >> => sweep \subseteq ColumnRows(db)
  /\ phase = << "columns", 0 >> => keys = {}
  /\ phase = << "keys", 0 >> => sweep \cup keys = KeyRows(db)

IInv == (\E case \in Cases : db = case.db) /\ Obeyed /\ Read

-----------------------------------------------------------------------------
LEMMA Declarations ==
  ASSUME IInv
  PROVE  /\ IsFiniteSet(db.tables)
         /\ \A t \in db.tables : \A a, b \in DOMAIN t.types : SameName(a, b) => a = b
         /\ \A t \in db.tables : \A k \in t.keys : k.columns \subseteq DOMAIN t.types
BY CasesAssumption DEF IInv

LEMMA InitIInv == Init => IInv
<1> SUFFICES ASSUME Init PROVE IInv
  OBVIOUS
<1>1. \E case \in Cases : db = case.db
  BY DEF Init
<1>2. Obeyed
  <2>1. rows = [t \in db.tables |-> {}]
    BY DEF Init
  <2> QED
    BY <2>1 DEF Obeyed
<1>3. Read
  BY DEF Init, Read, NoCatalog
<1> QED
  BY <1>1, <1>2, <1>3 DEF IInv

(* Whatever comes after the keys is not a sweep of columns or keys.        *)
LEMMA DescribeFacts ==
  ASSUME NEW i, DescribeAfter(i)
  PROVE  phase' # << "columns", 0 >> /\ phase' # << "keys", 0 >>
BY DEF DescribeAfter

LEMMA ReadColumnIInv == ASSUME IInv, ReadColumn PROVE IInv'
<1>1. PICK r \in sweep, nullable \in {"reported", "missing"} :
        /\ sweep' = sweep \ {r}
        /\ catalog' = [catalog EXCEPT
             !.types = Put(<< ReportedName(r.table), r.column >>, r.type, @),
             !.notNull = IF r.no /\ nullable = "reported"
                           THEN @ \union {<< ReportedName(r.table), r.column >>} ELSE @]
  BY DEF ReadColumn
<1>2. r \in ColumnRows(db) /\ UNCHANGED << db, rows, phase, keys >> /\ phase = << "columns", 0 >>
  BY <1>1 DEF ReadColumn, IInv, Read
<1>3. /\ DOMAIN catalog' = {"types", "notNull", "keys"} /\ catalog'.keys = catalog.keys
      /\ catalog'.notNull = IF r.no /\ nullable = "reported"
                              THEN catalog.notNull \union {<< ReportedName(r.table), r.column >>} ELSE catalog.notNull
  BY <1>1 DEF IInv, Read
<1>4. r.no => << ReportedName(r.table), r.column >> \in DeclaredNotNull
  BY <1>2 DEF DeclaredNotNull
<1>5. catalog'.notNull \subseteq DeclaredNotNull'
  BY <1>2, <1>3, <1>4 DEF IInv, Read, DeclaredNotNull
<1>6. Read'
  BY <1>1, <1>2, <1>3, <1>5 DEF IInv, Read, KeysOf
<1> QED
  BY <1>2, <1>6 DEF IInv, Obeyed, Agree

LEMMA EndKeysIInv == ASSUME IInv, EndKeys PROVE IInv'
<1>1. keys = KeyRows(db)
  BY DEF IInv, Read, EndKeys
<1>2. /\ catalog'.keys = KeysOf(keys) /\ catalog'.notNull = catalog.notNull
      /\ DOMAIN catalog' = {"types", "notNull", "keys"} /\ UNCHANGED << db, rows >>
  BY DEF IInv, Read, EndKeys
<1>3. phase' # << "columns", 0 >> /\ phase' # << "keys", 0 >>
  BY DescribeFacts DEF EndKeys
<1>4. Read'
  BY <1>1, <1>2, <1>3 DEF IInv, Read, DeclaredNotNull, KeysOf
<1> QED
  BY <1>2, <1>4 DEF IInv, Obeyed, Agree

(* A row that is stored is one that the declarations admit.                *)
LEMMA InsertIInv == ASSUME IInv, NEW t \in db.tables, Insert(t) PROVE IInv'
<1>1. PICK r \in t.pool \ rows[t] : Admissible(t, r) /\ rows' = [rows EXCEPT ![t] = @ \union {r}]
  BY DEF Insert
<1>2. UNCHANGED << db, catalog, phase, sweep, keys >>
  BY DEF Insert
<1>3. /\ DOMAIN rows' = db.tables /\ rows'[t] = rows[t] \union {r}
      /\ \A u \in db.tables : u # t => rows'[u] = rows[u]
  BY <1>1 DEF IInv, Obeyed
<1>4. \A u \in db.tables : \A s \in rows'[u] : \A c \in u.notNull : s[c] # NULL
  BY <1>1, <1>3 DEF IInv, Obeyed, Admissible
<1>5. ASSUME NEW u \in db.tables, NEW k \in u.keys, NEW r1 \in rows'[u], NEW r2 \in rows'[u], Agree(r1, r2, k.columns)
      PROVE  r1 = r2
  <2>1. CASE r1 \in rows[u] /\ r2 \in rows[u]
    BY <1>5, <2>1 DEF IInv, Obeyed
  <2>2. CASE u = t /\ r1 = r /\ r2 \in rows[t]
    BY <1>1, <1>5, <2>2 DEF Admissible
  <2>3. CASE u = t /\ r2 = r /\ r1 \in rows[t]
    <3>1. Agree(r2, r1, k.columns)
      BY <1>5 DEF Agree
    <3> QED
      BY <1>1, <2>3, <3>1 DEF Admissible
  <2> QED
    BY <1>3, <2>1, <2>2, <2>3
<1>6. Obeyed'
  BY <1>2, <1>3, <1>4, <1>5 DEF Obeyed, Agree
<1>7. Read'
  BY <1>2 DEF IInv, Read, DeclaredNotNull, KeysOf
<1> QED
  BY <1>2, <1>6, <1>7 DEF IInv

LEMMA StepIInv == ASSUME IInv, [Next]_vars PROVE IInv'
<1> USE DEF IInv
<1>1. CASE ReadColumn
  BY <1>1, ReadColumnIInv
<1>2. CASE FailColumns
  BY <1>2 DEF FailColumns, Read, Obeyed, Agree, DeclaredNotNull, KeysOf
<1>3. CASE EndColumns
  BY <1>3 DEF EndColumns, Read, Obeyed, Agree, DeclaredNotNull, KeysOf
<1>4. CASE ReadKey
  BY <1>4 DEF ReadKey, Read, Obeyed, Agree, DeclaredNotNull, KeysOf
<1>5. CASE FailKeys
  BY <1>5, DescribeFacts DEF FailKeys, Read, Obeyed, Agree, DeclaredNotNull, KeysOf
<1>6. CASE EndKeys
  BY <1>6, EndKeysIInv
<1>7. CASE ReadViewColumn
  BY <1>7 DEF ReadViewColumn, Read, Obeyed, Agree, DeclaredNotNull, KeysOf
<1>8. CASE FailView
  BY <1>8, DescribeFacts DEF FailView, Read, Obeyed, Agree, DeclaredNotNull, KeysOf
<1>9. CASE EndView
  <2>1. UNCHANGED << db, rows, keys >> /\ phase' # << "columns", 0 >> /\ phase' # << "keys", 0 >>
    BY <1>9, DescribeFacts DEF EndView
  <2>2. /\ catalog'.keys = catalog.keys /\ catalog'.notNull = catalog.notNull
        /\ DOMAIN catalog' = {"types", "notNull", "keys"}
    BY <1>9 DEF EndView, Read
  <2> QED
    BY <2>1, <2>2 DEF Read, Obeyed, Agree, DeclaredNotNull, KeysOf
<1>10. CASE \E t \in db.tables : Insert(t)
  BY <1>10, InsertIInv
<1>11. CASE \E t \in db.tables : Delete(t)
  <2>1. PICK t \in db.tables : Delete(t)
    BY <1>11
  <2>2. UNCHANGED << db, catalog, phase, sweep, keys >>
    BY <2>1 DEF Delete
  <2>3. DOMAIN rows' = db.tables /\ \A u \in db.tables : rows'[u] \subseteq rows[u]
    BY <2>1 DEF Delete, Obeyed
  <2>4. Obeyed'
    BY <2>2, <2>3 DEF Obeyed, Agree
  <2> QED
    BY <2>2, <2>4 DEF Read, DeclaredNotNull, KeysOf
<1>12. CASE Discarded \/ UNCHANGED vars
  BY <1>12 DEF Discarded, vars, Read, Obeyed, Agree, DeclaredNotNull, KeysOf
<1> QED
  BY <1>1, <1>2, <1>3, <1>4, <1>5, <1>6, <1>7, <1>8, <1>9, <1>10, <1>11, <1>12 DEF Next

-----------------------------------------------------------------------------
(* Where the name is that of one table only, it is that of every table     *)
(* that has it.                                                            *)
LEMMA OneTable ==
  ASSUME IInv, NEW lt, lt.kind = "table", OneSchema(lt),
         NEW t \in db.tables, SameName(t.name, lt.name), NEW u \in TablesOf(db, lt)
  PROVE  u = t
<1> DEFINE S == { v \in db.tables : lt.kind = "table" /\ SameName(v.name, lt.name) }
<1>1. IsFiniteSet(S) /\ Cardinality(S) <= 1
  <2>1. S \subseteq db.tables
    OBVIOUS
  <2>2. Cardinality(S) <= 1
    BY DEF OneSchema
  <2> QED
    BY <2>1, <2>2, Declarations, FS_Subset
<1>2. t \in S /\ u \in S
  BY DEF TablesOf
<1>3. ASSUME u # t PROVE FALSE
  <2>1. {t, u} \subseteq S
    BY <1>2
  <2>2. IsFiniteSet({t, u}) /\ Cardinality({t, u}) = 2
    <3>1. IsFiniteSet({t}) /\ Cardinality({t}) = 1
      BY FS_Singleton
    <3>2. u \notin {t} /\ {t, u} = {t} \cup {u}
      BY <1>3
    <3> QED
      BY <3>1, <3>2, FS_AddElement
  <2>3. Cardinality({t, u}) <= Cardinality(S)
    BY <2>1, <1>1, FS_Subset
  <2>4. Cardinality(S) \in Nat
    BY <1>1, FS_CardinalityType
  <2> HIDE DEF S
  <2> QED
    BY <2>2, <2>3, <2>4, <1>1
<1> QED
  BY <1>3

(* Only base tables without a schema are found under a reported name.      *)
LEMMA FoundByName ==
  ASSUME NEW lt, NEW name, SameIdentity(ReportedName(name), Identity(lt))
  PROVE  lt.kind = "table" /\ SameName(name, lt.name)
BY DEF SameIdentity, ReportedName, Identity

LEMMA SameNameFacts ==
  /\ \A a, b : SameName(a, b) => SameName(b, a)
  /\ \A a, b, c : SameName(a, b) /\ SameName(b, c) => SameName(a, c)
BY DEF SameName

(* A column that isNotNull affirms is never NULL.                          *)
LEMMA NotNullIsTrue == ASSUME IInv, NEW lt, OneSchema(lt) PROVE NotNullHolds(lt)
<1> SUFFICES ASSUME NEW c \in ColumnsOf(db, lt), NEW n \in Spellings(c), IsNotNull(catalog, Identity(lt), n),
                    NEW r \in Extent(lt)
             PROVE  r[c] # NULL
  BY DEF NotNullHolds
<1>1. PICK k \in catalog.notNull : SameIdentity(k[1], Identity(lt)) /\ SameName(k[2], n)
  BY DEF IsNotNull
<1>2. PICK said \in ColumnRows(db) : said.no /\ k = << ReportedName(said.table), said.column >>
  BY <1>1 DEF IInv, Read, DeclaredNotNull
<1>3. PICK t \in db.tables : \E col \in DOMAIN t.types :
        said = [table |-> t.name, column |-> col, type |-> t.types[col], no |-> col \in t.notNull]
  BY <1>2 DEF ColumnRows
<1>4. k[1] = ReportedName(t.name) /\ k[2] \in DOMAIN t.types /\ k[2] \in t.notNull
  <2>1. PICK col \in DOMAIN t.types :
          said = [table |-> t.name, column |-> col, type |-> t.types[col], no |-> col \in t.notNull]
    BY <1>3
  <2>2. said.table = t.name /\ said.column = col
    BY <2>1
  <2>3. col \in t.notNull
    <3>1. said.no = (col \in t.notNull)
      BY <2>1, Zenon
    <3> QED
      BY <1>2, <3>1, Zenon
  <2> QED
    BY <1>2, <2>2, <2>3
<1>5. lt.kind = "table" /\ SameName(t.name, lt.name)
  BY <1>1, <1>4, FoundByName
<1>6. \A u \in TablesOf(db, lt) : u = t
  BY <1>5, OneTable
<1>7. c \in DOMAIN t.types /\ r \in rows[t]
  BY <1>5, <1>6 DEF ColumnsOf, Extent
<1>8. k[2] = c
  BY <1>1, <1>4, <1>7, SameNameFacts, Declarations DEF Spellings
<1> QED
  BY <1>4, <1>7, <1>8 DEF IInv, Obeyed

(* A key of the catalog has all columns of a constraint.                   *)
LEMMA KeyIsWhole ==
  ASSUME NEW found \in KeysOf(KeyRows(db))
  PROVE  \E t \in db.tables : \E k \in t.keys : found[1] = ReportedName(t.name) /\ k.columns \subseteq found[2]
<1>1. PICK one \in KeyRows(db) :
        found = << ReportedName(one[1]), { r[3] : r \in { r \in KeyRows(db) : r[1] = one[1] /\ r[2] = one[2] } } >>
  BY DEF KeysOf
<1>2. PICK a \in Constraints(db) :
        one \in { << a[1], a[2].name, c >> : c \in UNION { b[2].columns : b \in { b \in Constraints(db) : b[2].name = a[2].name } } }
  BY <1>1 DEF KeyRows
<1>3. one[1] = a[1] /\ one[2] = a[2].name
  BY <1>2
<1>4. \E t \in db.tables : \E k \in t.keys : a = << t.name, k >>
  BY <1>2 DEF Constraints
<1>4a. PICK t \in db.tables : \E k \in t.keys : a = << t.name, k >>
  BY <1>4
<1>4b. PICK k \in t.keys : a = << t.name, k >>
  BY <1>4a
<1>5. ASSUME NEW c \in k.columns PROVE c \in found[2]
  <2>1. c \in UNION { b[2].columns : b \in { b \in Constraints(db) : b[2].name = a[2].name } }
    BY <1>2, <1>4b
  <2>2. << a[1], a[2].name, c >> \in KeyRows(db)
    BY <1>2, <2>1 DEF KeyRows
  <2> QED
    BY <1>1, <1>3, <2>2
<1> QED
  BY <1>1, <1>3, <1>4b, <1>5

(* Columns that coversUniqueKey affirms tell rows apart.                   *)
LEMMA KeysAreTrue == ASSUME IInv, NEW lt, OneSchema(lt) PROVE KeysHold(lt)
<1> SUFFICES ASSUME NEW cols \in SUBSET ColumnsOf(db, lt), CoversUniqueKey(catalog, Identity(lt), cols),
                    NEW r1 \in Extent(lt), NEW r2 \in Extent(lt), Agree(r1, r2, cols)
             PROVE  r1 = r2
  BY DEF KeysHold
<1>1. PICK found \in catalog.keys : SameIdentity(found[1], Identity(lt)) /\ Covers(found[2], cols)
  BY DEF CoversUniqueKey
<1>2a. PICK t \in db.tables : \E k \in t.keys : found[1] = ReportedName(t.name) /\ k.columns \subseteq found[2]
  BY <1>1, KeyIsWhole DEF IInv, Read
<1>2. PICK k \in t.keys : found[1] = ReportedName(t.name) /\ k.columns \subseteq found[2]
  BY <1>2a
<1>3. lt.kind = "table" /\ SameName(t.name, lt.name)
  BY <1>1, <1>2, FoundByName
<1>4. \A u \in TablesOf(db, lt) : u = t
  BY <1>3, OneTable
<1>5. cols \subseteq DOMAIN t.types /\ r1 \in rows[t] /\ r2 \in rows[t]
  BY <1>3, <1>4 DEF ColumnsOf, Extent
<1>6. k.columns \subseteq cols
  <2> SUFFICES ASSUME NEW c \in k.columns PROVE c \in cols
    OBVIOUS
  <2>1. PICK have \in cols : SameName(have, c)
    BY <1>1, <1>2 DEF Covers
  <2>2. have \in DOMAIN t.types /\ c \in DOMAIN t.types
    BY <1>5, Declarations
  <2> QED
    BY <2>1, <2>2, Declarations
<1>7. Agree(r1, r2, k.columns)
  BY <1>6 DEF Agree
<1> QED
  BY <1>5, <1>7 DEF IInv, Obeyed

-----------------------------------------------------------------------------
(* Whichever part of the catalog could be read and whatever rows come and  *)
(* go, a null guard or a DISTINCT that its answers let the translator drop *)
(* was vacuous (isNotNull, coversUniqueKey), in every database where the   *)
(* name of the table is that of one table only.                            *)
THEOREM ClaimsAreTrue == Spec => []ClaimsHold
<1>1. IInv => ClaimsHold
  BY NotNullIsTrue, KeysAreTrue DEF ClaimsHold, NotNullClaimsHold, KeyClaimsHold
<1> QED
  BY <1>1, InitIInv, StepIInv, PTL DEF Spec

-----------------------------------------------------------------------------
(* The types that the catalog knows are those of declared columns.         *)
OfTable(k, type) ==
  \E t \in db.tables : \E c \in DOMAIN t.types : k = << ReportedName(t.name), c >> /\ type = t.types[c]

OfView(k, type) ==
  \E i \in ViewSources(mapping) :
    k = << Identity(mapping[i]), k[2] >> /\ << k[2], type >> \in ViewRows(db, mapping[i])

TypesDeclared == \A k \in DOMAIN catalog.types : OfTable(k, catalog.types[k]) \/ OfView(k, catalog.types[k])

(* The sweep at hand and what it has collected.                            *)
Phases ==
  { << p, 0 >> : p \in {"columns", "keys", "ready", "discarded"} } \cup
  { << "view", i >> : i \in ViewSources(mapping) }

SweepAtHand ==
  /\ phase \in Phases
  /\ phase # << "keys", 0 >> => keys = {}
  /\ phase[1] # "view" => described = << >>
  /\ phase[1] = "view" =>
       /\ sweep \subseteq ViewRows(db, mapping[phase[2]])
       /\ \A c \in DOMAIN described : << c, described[c] >> \in ViewRows(db, mapping[phase[2]])

RowsStored == \A t \in db.tables : rows[t] \subseteq t.pool

TInv ==
  /\ IInv
  /\ \E case \in Cases : db = case.db /\ mapping = case.mapping
  /\ TypesDeclared /\ SweepAtHand /\ RowsStored

-----------------------------------------------------------------------------
LEMMA InitTInv == Init => TInv
<1> SUFFICES ASSUME Init PROVE TInv
  OBVIOUS
<1>1. IInv
  BY InitIInv
<1>2. \E case \in Cases : db = case.db /\ mapping = case.mapping
  BY DEF Init
<1>3. catalog.types = << >> /\ phase = << "columns", 0 >> /\ keys = {} /\ described = << >>
  BY DEF Init, NoCatalog
<1>4. TypesDeclared
  BY <1>3 DEF TypesDeclared
<1>5. SweepAtHand
  BY <1>3 DEF SweepAtHand, Phases
<1>6. RowsStored
  BY DEF Init, RowsStored
<1> QED
  BY <1>1, <1>2, <1>4, <1>5, <1>6 DEF TInv

(* The declarations and the mapping stay, and what is said of them.        *)
LEMMA Steady ==
  ASSUME UNCHANGED << db, mapping >>
  PROVE  /\ ViewSources(mapping)' = ViewSources(mapping)
         /\ \A i : ViewRows(db, mapping[i])' = ViewRows(db, mapping[i])
         /\ \A k, type : OfTable(k, type)' <=> OfTable(k, type)
         /\ \A k, type : OfView(k, type)' <=> OfView(k, type)
         /\ Phases' = Phases
<1>1. ViewSources(mapping)' = ViewSources(mapping)
  BY DEF ViewSources, Identity
<1>2. \A i : ViewRows(db, mapping[i])' = ViewRows(db, mapping[i])
  BY DEF ViewRows, TablesOf, ColumnsOf
<1>3. \A i : Identity(mapping[i])' = Identity(mapping[i])
  BY DEF Identity
<1>4. \A k, type : OfTable(k, type)' <=> OfTable(k, type)
  BY DEF OfTable
<1>5. \A k, type : OfView(k, type)' <=> OfView(k, type)
  BY <1>1, <1>2, <1>3 DEF OfView
<1>6. Phases' = Phases
  BY <1>1 DEF Phases
<1> QED
  BY <1>1, <1>2, <1>4, <1>5, <1>6

(* Nothing but reading a column and closing a view changes the types.      *)
LEMMA SameTypes ==
  ASSUME TypesDeclared, UNCHANGED << db, mapping >>, catalog'.types = catalog.types
  PROVE  TypesDeclared'
BY Steady DEF TypesDeclared

(* The sweep that follows, if any, is the description of a view.           *)
LEMMA NextSweep ==
  ASSUME NEW i, DescribeAfter(i), UNCHANGED << db, mapping >>, keys' = {}, described' = << >>
  PROVE  SweepAtHand'
<1>1. CASE phase' = << "ready", 0 >>
  BY <1>1 DEF SweepAtHand, Phases
<1>2. CASE \E j \in ViewSources(mapping) : phase' = << "view", j >> /\ sweep' = ViewRows(db, mapping[j])
  <2>1. PICK j \in ViewSources(mapping) : phase' = << "view", j >> /\ sweep' = ViewRows(db, mapping[j])
    BY <1>2
  <2>2. ViewSources(mapping)' = ViewSources(mapping) /\ ViewRows(db, mapping[j])' = ViewRows(db, mapping[j])
    BY Steady
  <2>3. phase' \in Phases' /\ phase'[1] = "view" /\ phase'[2] = j /\ phase' # << "keys", 0 >>
    BY <2>1, <2>2 DEF Phases
  <2> QED
    BY <2>1, <2>2, <2>3 DEF SweepAtHand
<1> QED
  BY <1>1, <1>2 DEF DescribeAfter

LEMMA ReadColumnTypes == ASSUME TInv, ReadColumn PROVE TypesDeclared'
<1>1. PICK r \in sweep : catalog'.types = Put(<< ReportedName(r.table), r.column >>, r.type, catalog.types)
  BY DEF ReadColumn, TInv, IInv, Read
<1>2. r \in ColumnRows(db) /\ UNCHANGED << db, mapping >>
  BY <1>1 DEF ReadColumn, TInv, IInv, Read
<1> DEFINE key == << ReportedName(r.table), r.column >>
<1>3. OfTable(key, r.type)
  <2>1. PICK t \in db.tables : \E c \in DOMAIN t.types :
          r = [table |-> t.name, column |-> c, type |-> t.types[c], no |-> c \in t.notNull]
    BY <1>2 DEF ColumnRows
  <2>2. PICK c \in DOMAIN t.types :
          r = [table |-> t.name, column |-> c, type |-> t.types[c], no |-> c \in t.notNull]
    BY <2>1
  <2>3. r.table = t.name /\ r.column = c /\ r.type = t.types[c]
    BY <2>2
  <2> QED
    BY <2>3 DEF OfTable
<1>4. /\ DOMAIN catalog'.types = {key} \cup DOMAIN catalog.types
      /\ catalog'.types[key] = r.type
      /\ \A k \in DOMAIN catalog.types : k # key => catalog'.types[k] = catalog.types[k]
  BY <1>1 DEF Put, PutAll
<1>5. ASSUME NEW k \in DOMAIN catalog'.types
      PROVE  OfTable(k, catalog'.types[k]) \/ OfView(k, catalog'.types[k])
  <2> HIDE DEF key
  <2>1. CASE k = key
    BY <1>3, <1>4, <2>1
  <2>2. CASE k # key /\ k \in DOMAIN catalog.types
    BY <1>4, <2>2 DEF TInv, TypesDeclared
  <2> QED
    BY <1>4, <2>1, <2>2
<1> QED
  BY <1>2, <1>5, Steady DEF TypesDeclared

LEMMA EndViewTypes == ASSUME TInv, EndView PROVE TypesDeclared'
<1> DEFINE i  == phase[2]
           id == Identity(mapping[i])
           of == [k \in { << id, c >> : c \in DOMAIN described } |-> described[k[2]]]
<1>1. i \in ViewSources(mapping) /\ \A c \in DOMAIN described : << c, described[c] >> \in ViewRows(db, mapping[i])
  <2>1. phase[1] = "view" /\ SweepAtHand
    BY DEF EndView, TInv
  <2>2. PICK j \in ViewSources(mapping) : phase = << "view", j >>
    BY <2>1 DEF SweepAtHand, Phases
  <2> QED
    BY <2>1, <2>2 DEF SweepAtHand
<1>2. catalog'.types = PutAll(of, catalog.types) /\ UNCHANGED << db, mapping >>
  BY DEF EndView, TInv, IInv, Read
<1>3. /\ DOMAIN catalog'.types = DOMAIN of \cup DOMAIN catalog.types
      /\ \A k \in DOMAIN of : catalog'.types[k] = of[k]
      /\ \A k \in DOMAIN catalog.types : k \notin DOMAIN of => catalog'.types[k] = catalog.types[k]
  <2> HIDE DEF of
  <2> QED
    BY <1>2 DEF PutAll
<1>4. ASSUME NEW k \in DOMAIN of PROVE OfView(k, of[k])
  <2>1. PICK c \in DOMAIN described : k = << id, c >>
    OBVIOUS
  <2>2. of[k] = described[c] /\ k[2] = c
    BY <2>1
  <2> QED
    BY <1>1, <2>1, <2>2 DEF OfView
<1>5. ASSUME NEW k \in DOMAIN catalog'.types
      PROVE  OfTable(k, catalog'.types[k]) \/ OfView(k, catalog'.types[k])
  <2> HIDE DEF of
  <2>1. CASE k \in DOMAIN of
    BY <1>3, <1>4, <2>1
  <2>2. CASE k \notin DOMAIN of /\ k \in DOMAIN catalog.types
    BY <1>3, <2>2 DEF TInv, TypesDeclared
  <2> QED
    BY <1>3, <2>1, <2>2
<1> QED
  BY <1>2, <1>5, Steady DEF TypesDeclared

LEMMA ReadViewSweep == ASSUME TInv, ReadViewColumn PROVE SweepAtHand'
<1>1. PICK r \in sweep : sweep' = sweep \ {r} /\ described' = Put(r[1], r[2], described)
  BY DEF ReadViewColumn
<1>2. UNCHANGED << db, mapping, phase, keys >> /\ phase[1] = "view" /\ SweepAtHand
  BY DEF ReadViewColumn, TInv
<1>3. PICK c : r = << c, r[2] >> /\ r \in ViewRows(db, mapping[phase[2]])
  <2>1. r \in ViewRows(db, mapping[phase[2]])
    BY <1>1, <1>2 DEF SweepAtHand
  <2> QED
    BY <2>1 DEF ViewRows
<1>4. r = << r[1], r[2] >>
  BY <1>3
<1>5. \A x \in DOMAIN described' : << x, described'[x] >> \in ViewRows(db, mapping[phase[2]])
  <2>1. /\ DOMAIN described' = {r[1]} \cup DOMAIN described
        /\ described'[r[1]] = r[2]
        /\ \A x \in DOMAIN described : x # r[1] => described'[x] = described[x]
    BY <1>1 DEF Put, PutAll
  <2> QED
    BY <1>2, <1>3, <1>4, <2>1 DEF SweepAtHand
<1> QED
  BY <1>1, <1>2, <1>5, Steady DEF SweepAtHand

LEMMA StepTInv == ASSUME TInv, [Next]_vars PROVE TInv'
<1>1. IInv'
  BY StepIInv DEF TInv
<1>2. UNCHANGED << db, mapping >>
  BY DEF Next, vars, ReadColumn, FailColumns, EndColumns, ReadKey, FailKeys, EndKeys, ReadViewColumn,
         FailView, EndView, Insert, Delete, Discarded
<1>3. TypesDeclared'
  <2>1. CASE ReadColumn
    BY <2>1, ReadColumnTypes
  <2>2. CASE EndView
    BY <2>2, EndViewTypes
  <2>3. CASE ~ReadColumn /\ ~EndView
    <3>1. catalog'.types = catalog.types
      <4>1. CASE EndKeys
        BY <4>1 DEF EndKeys, TInv, IInv, Read
      <4>2. CASE ~EndKeys
        BY <2>3, <4>2 DEF Next, vars, FailColumns, EndColumns, ReadKey, FailKeys, ReadViewColumn,
             FailView, Insert, Delete, Discarded
      <4> QED
        BY <4>1, <4>2
    <3> QED
      BY <1>2, <3>1, SameTypes DEF TInv
  <2> QED
    BY <2>1, <2>2, <2>3
<1>4. SweepAtHand'
  <2> USE DEF TInv
  <2>1. CASE ReadColumn
    BY <2>1 DEF ReadColumn, SweepAtHand, Phases, ViewSources, Identity
  <2>2. CASE FailColumns
    BY <2>2 DEF FailColumns, SweepAtHand, Phases
  <2>3. CASE EndColumns
    BY <2>3 DEF EndColumns, SweepAtHand, Phases
  <2>4. CASE ReadKey
    BY <2>4 DEF ReadKey, SweepAtHand, Phases, ViewSources, Identity
  <2>5. CASE FailKeys \/ EndKeys
    <3>1. described = << >>
      BY <2>5 DEF FailKeys, EndKeys, SweepAtHand
    <3> QED
      BY <2>5, <3>1, NextSweep DEF FailKeys, EndKeys
  <2>6. CASE FailView \/ EndView
    <3>1. keys = {}
      BY <2>6 DEF FailView, EndView, SweepAtHand
    <3> QED
      BY <2>6, <3>1, NextSweep DEF FailView, EndView
  <2>7. CASE ReadViewColumn
    BY <2>7, ReadViewSweep
  <2>8. CASE (\E t \in db.tables : Insert(t) \/ Delete(t)) \/ Discarded \/ UNCHANGED vars
    <3>1. UNCHANGED << db, mapping, phase, sweep, keys, described >>
      BY <2>8 DEF Insert, Delete, Discarded, vars
    <3> QED
      BY <3>1, Steady DEF SweepAtHand
  <2> QED
    BY <2>1, <2>2, <2>3, <2>4, <2>5, <2>6, <2>7, <2>8 DEF Next
<1>5. RowsStored'
  <2>1. CASE \E t \in db.tables : Insert(t)
    <3>1. PICK t \in db.tables : Insert(t)
      BY <2>1
    <3>2. PICK r \in t.pool : rows' = [rows EXCEPT ![t] = @ \union {r}]
      BY <3>1 DEF Insert
    <3> QED
      BY <1>2, <3>1, <3>2 DEF TInv, IInv, Obeyed, RowsStored
  <2>2. CASE \E t \in db.tables : Delete(t)
    <3>1. PICK t \in db.tables : Delete(t)
      BY <2>2
    <3>2. PICK r \in rows[t] : rows' = [rows EXCEPT ![t] = @ \ {r}]
      BY <3>1 DEF Delete
    <3> QED
      BY <1>2, <3>1, <3>2 DEF TInv, IInv, Obeyed, RowsStored
  <2>3. CASE ~(\E t \in db.tables : Insert(t) \/ Delete(t))
    <3>1. rows' = rows
      BY <2>3 DEF Next, vars, ReadColumn, FailColumns, EndColumns, ReadKey, FailKeys, EndKeys,
           ReadViewColumn, FailView, EndView, Discarded
    <3> QED
      BY <1>2, <3>1 DEF TInv, RowsStored
  <2> QED
    BY <2>1, <2>2, <2>3
<1>6. (\E case \in Cases : db = case.db /\ mapping = case.mapping)'
  BY <1>2 DEF TInv
<1> QED
  BY <1>1, <1>3, <1>4, <1>5, <1>6 DEF TInv

LEMMA Known == Spec => []TInv
BY InitTInv, StepTInv, PTL DEF Spec

(* The maps hold what is declared, whatever has failed, and those of a     *)
(* sweep do not outlive it (TypeOK).                                       *)
THEOREM TypeCorrect == Spec => []TypeOK
<1>1. TInv => TypeOK
  <2> SUFFICES ASSUME TInv PROVE TypeOK
    OBVIOUS
  <2>1. phase[1] \in {"columns", "keys", "view", "ready", "discarded"} /\ (phase[1] = "keys" => phase = << "keys", 0 >>)
    BY DEF TInv, SweepAtHand, Phases
  <2>2. ASSUME NEW k \in DOMAIN catalog.types
        PROVE  \/ k \in { << ReportedName(r.table), r.column >> : r \in ColumnRows(db) }
               \/ k \in UNION { { << Identity(lt), c >> : c \in ColumnsOf(db, lt) } : lt \in Range(mapping) }
    <3>1. CASE OfTable(k, catalog.types[k])
      <4>1. PICK t \in db.tables : \E c \in DOMAIN t.types : k = << ReportedName(t.name), c >>
        BY <3>1 DEF OfTable
      <4>2. PICK c \in DOMAIN t.types : k = << ReportedName(t.name), c >>
        BY <4>1
      <4>3. [table |-> t.name, column |-> c, type |-> t.types[c], no |-> c \in t.notNull] \in ColumnRows(db)
        BY DEF ColumnRows
      <4> QED
        BY <4>2, <4>3
    <3>2. CASE OfView(k, catalog.types[k])
      <4>1. PICK i \in ViewSources(mapping) :
              k = << Identity(mapping[i]), k[2] >> /\ << k[2], catalog.types[k] >> \in ViewRows(db, mapping[i])
        BY <3>2 DEF OfView
      <4>2. k[2] \in ColumnsOf(db, mapping[i])
        BY <4>1 DEF ViewRows
      <4>3. mapping[i] \in Range(mapping)
        BY DEF ViewSources, Range
      <4> QED
        BY <4>1, <4>2, <4>3
    <3> QED
      BY <3>1, <3>2 DEF TInv, TypesDeclared
  <2>3. catalog.notNull \subseteq { << ReportedName(r.table), r.column >> : r \in ColumnRows(db) }
    BY DEF TInv, IInv, Read, DeclaredNotNull
  <2>4. keys \subseteq KeyRows(db) /\ (keys # {} => phase[1] = "keys")
    BY DEF TInv, IInv, Read, SweepAtHand
  <2>5. described # << >> => phase[1] = "view"
    BY DEF TInv, SweepAtHand
  <2> QED
    BY <2>1, <2>2, <2>3, <2>4, <2>5 DEF TypeOK, TInv, RowsStored
<1> QED
  BY <1>1, Known, PTL

-----------------------------------------------------------------------------
LEMMA SqlRules ==
  ASSUME TInv
  PROVE  /\ \A t, u \in db.tables : t.schema = u.schema /\ SameName(t.name, u.name) => t = u
         /\ \A t \in db.tables : \A r \in rows[t] :
              /\ DOMAIN r = DOMAIN t.types
              /\ \A c \in DOMAIN r : r[c] # NULL =>
                   /\ r[c].type = t.types[c]
                   /\ r[c].type.base = "INTEGER" => ~(r[c].num > Int32Max * Unit)
         /\ \A v, w \in db.views : SameName(v.query, w.query) => v.table = w.table /\ v.columns = w.columns
         /\ \A v \in db.views : \A t \in db.tables :
              t.name = v.table /\ t.schema = "main" => v.columns \subseteq DOMAIN t.types
BY RowsAssumption DEF TInv, RowsStored

(* What the conversion writes is what SQL shows of a value, in any         *)
(* database whose values are of the declared types, but for floating-point *)
(* numbers and unsigned ones beyond int32_t.                               *)
THEOREM TextsAreEqual == Spec => []TextsAgree
<1>1. TInv => TextsAgree
  <2> SUFFICES ASSUME TInv PROVE TextsAgree
    OBVIOUS
  <2> SUFFICES ASSUME NEW t \in db.tables, NEW r \in rows[t], NEW c \in DOMAIN r, r[c] # NULL,
                      r[c].type.base # "DOUBLE",
                      ~(r[c].type.base = "UINTEGER" /\ r[c].num > Int32Max * Unit)
               PROVE  Text(r[c]) = SqlText(r[c])
    BY DEF TextsAgree
  <2>1. ~(r[c].type.base \in {"INTEGER", "UINTEGER"} /\ r[c].num > Int32Max * Unit)
    BY SqlRules
  <2> QED
    BY <2>1 DEF Text
<1> QED
  BY <1>1, Known, PTL

(* The table that a logical table with one schema stands for.              *)
LEMMA OneExtent ==
  ASSUME TInv, NEW lt, OneSchema(lt), NEW t \in TablesOf(db, lt), NEW u \in TablesOf(db, lt)
  PROVE  t = u /\ t \in db.tables
<1>1. CASE lt.kind = "table"
  BY <1>1, OneTable DEF TablesOf, TInv
<1>2. CASE lt.kind # "table"
  <2>1. \E v, w \in db.views : v.query = lt.name /\ w.query = lt.name /\ t \in db.tables /\ u \in db.tables
          /\ t.name = v.table /\ u.name = w.table /\ t.schema = "main" /\ u.schema = "main"
    BY <1>2 DEF TablesOf
  <2> QED
    BY <2>1, SqlRules DEF SameName
<1> QED
  BY <1>1, <1>2

(* typeOf answers the declared type of the column, or nothing.             *)
LEMMA TypeIsDeclared ==
  ASSUME TInv, NEW lt, OneSchema(lt), NEW t \in TablesOf(db, lt),
         NEW c \in ColumnsOf(db, lt), TypeOfColumn(catalog, Identity(lt), c) # NoType
  PROVE  c \in DOMAIN t.types /\ TypeOfColumn(catalog, Identity(lt), c) = t.types[c]
<1> DEFINE hits == { k \in DOMAIN catalog.types : SameIdentity(k[1], Identity(lt)) /\ SameName(k[2], c) }
<1>0. t \in db.tables
  BY OneExtent
<1>1. ASSUME NEW k \in hits PROVE c \in DOMAIN t.types /\ catalog.types[k] = t.types[c]
  <2>1. CASE OfTable(k, catalog.types[k])
    <3>1. PICK u \in db.tables : \E d \in DOMAIN u.types : k = << ReportedName(u.name), d >> /\ catalog.types[k] = u.types[d]
      BY <2>1 DEF OfTable
    <3>2. PICK d \in DOMAIN u.types : k = << ReportedName(u.name), d >> /\ catalog.types[k] = u.types[d]
      BY <3>1
    <3>3. lt.kind = "table" /\ SameName(u.name, lt.name)
      BY <3>2, FoundByName
    <3>4. t = u
      BY <3>3, OneTable DEF TInv
    <3>5. c \in DOMAIN t.types
      <4>1. PICK v \in TablesOf(db, lt) : c \in DOMAIN v.types
        BY <3>3 DEF ColumnsOf
      <4> QED
        BY <4>1, OneExtent
    <3>6. d = c
      BY <3>2, <3>4, <3>5, Declarations DEF TInv
    <3> QED
      BY <3>2, <3>4, <3>5, <3>6
  <2>2. CASE OfView(k, catalog.types[k])
    <3>1. PICK i \in ViewSources(mapping) :
            k = << Identity(mapping[i]), k[2] >> /\ << k[2], catalog.types[k] >> \in ViewRows(db, mapping[i])
      BY <2>2 DEF OfView
    <3>2. mapping[i].kind = "view"
      BY DEF ViewSources
    <3>3. lt.kind # "table" /\ SameName(mapping[i].name, lt.name)
      BY <3>1, <3>2 DEF Identity, SameIdentity
    <3>4. PICK v \in db.views : v.query = mapping[i].name /\ k[2] \in v.columns
      BY <3>1, <3>2 DEF ViewRows, ColumnsOf
    <3>5. PICK w \in db.views : w.query = lt.name /\ c \in w.columns
      BY <3>3 DEF ColumnsOf
    <3>6. v.table = w.table /\ v.columns = w.columns
      BY <3>3, <3>4, <3>5, SqlRules
    <3>7. t.name = w.table /\ t.schema = "main"
      <4>1. PICK x \in db.views : x.query = lt.name /\ t.name = x.table /\ t.schema = "main"
        BY <3>3 DEF TablesOf
      <4> QED
        BY <3>5, <4>1, SqlRules DEF SameName
    <3>8. c \in DOMAIN t.types /\ k[2] \in DOMAIN t.types
      BY <1>0, <3>4, <3>5, <3>6, <3>7, SqlRules
    <3>9. k[2] = c
      BY <1>0, <3>8, Declarations DEF TInv
    <3>10. t \in TablesOf(db, mapping[i])
      BY <1>0, <3>2, <3>4, <3>6, <3>7 DEF TablesOf
    <3>11. \A u \in TablesOf(db, mapping[i]) : u = t
      <4>1. OneSchema(mapping[i])
        <5>1. { u \in db.tables : mapping[i].kind = "table" /\ SameName(u.name, mapping[i].name) } = {}
          BY <3>2
        <5> QED
          BY <5>1, FS_EmptySet, SMTT(30) DEF OneSchema
      <4> QED
        BY <3>10, <4>1, OneExtent
    <3>12. catalog.types[k] = (CHOOSE u \in TablesOf(db, mapping[i]) : TRUE).types[k[2]]
      BY <3>1 DEF ViewRows
    <3>13. (CHOOSE u \in TablesOf(db, mapping[i]) : TRUE) = t
      BY <3>10, <3>11
    <3> QED
      BY <3>8, <3>9, <3>12, <3>13
  <2> QED
    BY <2>1, <2>2 DEF TInv, TypesDeclared
<1>2. hits # {} /\ TypeOfColumn(catalog, Identity(lt), c) = catalog.types[CHOOSE k \in hits : TRUE]
  BY DEF TypeOfColumn
<1>3. (CHOOSE k \in hits : TRUE) \in hits
  BY <1>2
<1> HIDE DEF hits
<1> QED
  BY <1>1, <1>2, <1>3

(* The stored values of a column are of the type that typeOf answers.      *)
LEMMA StoredAreTyped ==
  ASSUME TInv, NEW lt, OneSchema(lt), NEW c \in ColumnsOf(db, lt),
         TypeOfColumn(catalog, Identity(lt), c) # NoType, NEW v \in Stored(lt, c)
  PROVE  v.type = TypeOfColumn(catalog, Identity(lt), c)
<1>1. PICK r \in Extent(lt) : v = r[c] /\ r[c] # NULL
  BY DEF Stored
<1>2. PICK t \in TablesOf(db, lt) : r \in rows[t]
  BY DEF Extent
<1>3. t \in db.tables /\ c \in DOMAIN t.types /\ TypeOfColumn(catalog, Identity(lt), c) = t.types[c]
  BY OneExtent, TypeIsDeclared
<1> QED
  BY <1>1, <1>2, <1>3, SqlRules

(* Values of one category are equal as numbers exactly if they are as      *)
(* texts, unless their types are different ones with decimals.             *)
LEMMA EqualAsText ==
  ASSUME NEW v, NEW w, Category(v.type) = Category(w.type), Category(v.type) # "Other",
         ~ShownDifferently(v.type, w.type)
  PROVE  NativelyEqual(v, w) <=> SqlText(v) = SqlText(w)
<1>1. CASE Category(v.type) = "String"
  <2>1. v.type.base = "VARCHAR"
    BY <1>1 DEF Category
  <2> QED
    BY <2>1 DEF NativelyEqual
<1>2. CASE Category(v.type) = "Integer"
  <2>1. v.type.base \in {"INTEGER", "UINTEGER", "BIGINT"} /\ w.type.base \in {"INTEGER", "UINTEGER", "BIGINT"}
    BY <1>2 DEF Category
  <2>2. Decimals(v) = 0 /\ Decimals(w) = 0
    BY <2>1 DEF Decimals
  <2>3. NativelyEqual(v, w) <=> v.num = w.num
    BY <2>1 DEF NativelyEqual
  <2> QED
    BY <2>2, <2>3 DEF SqlText
<1>3. CASE Category(v.type) = "Float"
  <2>1. v.type = w.type
    BY <1>3 DEF ShownDifferently
  <2>2. v.type.base \in {"DOUBLE", "DECIMAL"}
    BY <1>3 DEF Category
  <2>3. NativelyEqual(v, w) <=> v.num = w.num
    BY <2>2 DEF NativelyEqual
  <2>4. v.num = w.num => Decimals(v) = Decimals(w)
    BY <2>1, <2>2 DEF Decimals
  <2> QED
    BY <2>3, <2>4 DEF SqlText
<1>4. Category(v.type) \in {"Integer", "Float", "String", "Other"}
  BY DEF Category
<1> QED
  BY <1>1, <1>2, <1>3, <1>4

(* A join whose keys lose their casts because comparable affirms them      *)
(* joins the same rows, in every database and with whatever part of the    *)
(* catalog could be read, but for different types with decimals and names  *)
(* that two schemas have.                                                  *)
THEOREM ComparableAreLexical == Spec => []ComparableIsLexical
<1>1. TInv => ComparableIsLexical
  <2> SUFFICES ASSUME TInv, NEW lt1 \in Range(mapping), OneSchema(lt1), NEW lt2 \in Range(mapping), OneSchema(lt2),
                      NEW c1 \in ColumnsOf(db, lt1), NEW c2 \in ColumnsOf(db, lt2),
                      Comparable(catalog, Identity(lt1), c1, Identity(lt2), c2),
                      ~ShownDifferently(TypeOfColumn(catalog, Identity(lt1), c1), TypeOfColumn(catalog, Identity(lt2), c2)),
                      NEW v \in Stored(lt1, c1), NEW w \in Stored(lt2, c2)
               PROVE  NativelyEqual(v, w) <=> SqlText(v) = SqlText(w)
    BY DEF ComparableIsLexical, Lexical
  <2>2. /\ v.type = TypeOfColumn(catalog, Identity(lt1), c1)
        /\ w.type = TypeOfColumn(catalog, Identity(lt2), c2)
    BY StoredAreTyped DEF Comparable
  <2>3. Category(v.type) = Category(w.type) /\ Category(v.type) # "Other" /\ ~ShownDifferently(v.type, w.type)
    BY <2>2 DEF Comparable
  <2> QED
    BY <2>3, EqualAsText
<1> QED
  BY <1>1, Known, PTL
=============================================================================
