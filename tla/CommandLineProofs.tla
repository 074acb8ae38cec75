--------------------------- MODULE CommandLineProofs ---------------------------
(***************************************************************************)
(* Theorems about CommandLine for every command line, every result of a    *)
(* query and any number of rows.                                           *)
(***************************************************************************)
EXTENDS CommandLine, FiniteSetTheorems, WellFoundedInduction, TLAPS

(* The variables that messages and the exit status depend on.              *)
Lines == [what : {"query", "sql", "header", "part", "row"}, cells : SUBSET { Upper[c] : c \in UNION Results }]

IsOptions(o) == DOMAIN o = {"given", "Q", "T", "dialect", "f", "files"} /\ o.files \in Seq(STRING)

RowLines(lines) == { i \in DOMAIN lines : lines[i].what = "row" }

Types ==
  /\ argv \in Seq(STRING) /\ at \in Nat \ {0}
  /\ IsOptions(opts) /\ Len(opts.files) <= 3
  /\ rows \in [all : Nat, left : Nat] /\ rows.left <= rows.all
  /\ columns \in Results \cup {{}}
  /\ out \in Seq(Lines)

Reading == {"arguments", "query", "mapping", "dialect", "open", "catalog", "translate", "run"}
Querying == {"dialect", "catalog", "translate", "run", "print"}
Writing == {"output", "convert", "close"}

(* What has been settled when a phase is reached.                          *)
Settled ==
  /\ phase = "query" => opts.T = Empty
  /\ phase \in Querying => opts.T # Empty
  /\ phase \in Writing => opts.T = Empty /\ open
  /\ phase \in {"mapping", "open"} \cup Querying \cup Writing => opts.Q = Empty /\ (opts.T = Empty => Len(opts.files) = 3)
  /\ phase \in {"open"} \cup Querying \cup Writing => mapping \in {"whole", "faulty", "empty"}

(* What has been done by then.                                             *)
Done ==
  /\ phase \in Reading => out = << >>
  /\ phase \in Reading \cup {"print", "output"} => file = Old
  /\ phase = "print" => Cardinality(RowLines(out)) + rows.left = rows.all
  /\ phase = "close" => rows.left = 0 \/ "conversion" \in err
  /\ phase \in Reading \cup {"print"} \cup Writing => exit = Running
  /\ phase \in Reading \cup {"print"} \cup Writing \cup {"exited"}

IInv == Types /\ Settled /\ Done /\ ExitCodeTells

-----------------------------------------------------------------------------
(* A line more, a row more if it is that of a row.                         *)
LEMMA OneLineMore ==
  ASSUME NEW lines \in Seq(Lines), NEW l \in Lines
  PROVE  /\ Append(lines, l) \in Seq(Lines)
         /\ IsFiniteSet(RowLines(lines)) /\ Cardinality(RowLines(lines)) \in Nat
         /\ Cardinality(RowLines(Append(lines, l))) = Cardinality(RowLines(lines)) + (IF l.what = "row" THEN 1 ELSE 0)
<1> DEFINE n == Len(lines) + 1
<1>1. Append(lines, l) \in Seq(Lines) /\ n \in Nat
  OBVIOUS
<1>2. IsFiniteSet(RowLines(lines)) /\ Cardinality(RowLines(lines)) \in Nat
  <2>1. RowLines(lines) \subseteq 1 .. Len(lines)
    BY DEF RowLines
  <2>2. IsFiniteSet(1 .. Len(lines))
    BY FS_Interval
  <2> QED
    BY <2>1, <2>2, FS_Subset, FS_CardinalityType
<1>3. RowLines(Append(lines, l)) = RowLines(lines) \cup (IF l.what = "row" THEN {n} ELSE {})
  <2>1. DOMAIN Append(lines, l) = (DOMAIN lines) \cup {n}
    OBVIOUS
  <2>2. Append(lines, l)[n] = l /\ \A i \in DOMAIN lines : Append(lines, l)[i] = lines[i]
    OBVIOUS
  <2> QED
    BY <2>1, <2>2 DEF RowLines
<1>4. n \notin RowLines(lines)
  BY DEF RowLines
<1>5. Cardinality(RowLines(lines) \cup {n}) = Cardinality(RowLines(lines)) + 1
  BY <1>2, <1>4, FS_AddElement
<1>6. CASE l.what = "row"
  BY <1>1, <1>2, <1>3, <1>5, <1>6
<1>7. CASE l.what # "row"
  <2>1. RowLines(Append(lines, l)) = RowLines(lines)
    BY <1>3, <1>7
  <2> QED
    BY <1>1, <1>2, <1>7, <2>1
<1> QED
  BY <1>6, <1>7

LEMMA LineType ==
  ASSUME NEW what \in {"query", "sql", "header", "part", "row"}, NEW cells \in SUBSET { Upper[c] : c \in UNION Results }
  PROVE  Line(what, cells) \in Lines /\ Line(what, cells).what = what
BY DEF Line, Lines

LEMMA RowNamesType ==
  ASSUME Types
  PROVE  RowNames \in SUBSET { Upper[c] : c \in UNION Results }
BY DEF Types, RowNames

LEMMA FilesType ==
  ASSUME Types
  PROVE  opts.files \in Seq(STRING) /\ Len(opts.files) \in Nat /\ Len(opts.files) <= 3
<1>1. opts.files \in Seq(STRING) /\ Len(opts.files) <= 3
  BY DEF Types, IsOptions
<1>2. Len(opts.files) \in Nat
  BY <1>1
<1> QED
  BY <1>1, <1>2

(* As long as there is no exit status, none has to tell anything.          *)
LEMMA NoStatusYet == ASSUME exit' = Running PROVE ExitCodeTells'
BY DEF ExitCodeTells, Running

(* A failure says why.                                                     *)
LEMMA FailureTells == ASSUME NEW m, Fail(m) PROVE ExitCodeTells'
BY DEF ExitCodeTells, Fail, Exit

LEMMA InitIInv == Init => IInv
<1> SUFFICES ASSUME Init PROVE IInv
  OBVIOUS
<1>1. argv \in Seq(STRING)
  BY InputsAssumption DEF Init
<1>2. IsOptions(opts) /\ Len(opts.files) = 0
  <2>1. << >> \in Seq(STRING) /\ Len(<< >>) = 0
    OBVIOUS
  <2>2. IsOptions(NoOptions) /\ NoOptions.files = << >>
    BY <2>1 DEF NoOptions, IsOptions
  <2> QED
    BY <2>1, <2>2 DEF Init
<1>3. Types
  BY <1>1, <1>2 DEF Init, Types
<1>4. Settled /\ Done
  BY DEF Init, Settled, Done, Reading, Querying, Writing
<1>5. ExitCodeTells
  BY DEF Init, ExitCodeTells, Running
<1> QED
  BY <1>3, <1>4, <1>5 DEF IInv

-----------------------------------------------------------------------------
(* The arguments.                                                          *)
LEMMA ArgumentsIInv == ASSUME IInv, Arguments PROVE IInv'
<1> USE DEF IInv, world
<1>1. CASE Help
  <2>1. Types'
    BY <1>1 DEF Help, Types
  <2>2. Settled' /\ Done'
    BY <1>1 DEF Help, Settled, Done, Exit, Reading, Querying, Writing
  <2>3. ExitCodeTells'
    BY <1>1 DEF Help, ExitCodeTells, Done, Exit, Reading
  <2> QED
    BY <2>1, <2>2, <2>3
<1>2. CASE ReadFlag
  <2>1. IsOptions(opts)' /\ opts'.files = opts.files /\ argv[at] \in STRING
    BY <1>2 DEF ReadFlag, Types, IsOptions
  <2>2. Types'
    BY <1>2, <2>1 DEF ReadFlag, Types
  <2>3. Settled' /\ Done'
    BY <1>2 DEF ReadFlag, Settled, Done, Reading, Querying, Writing
  <2>4. ExitCodeTells'
    BY <1>2, NoStatusYet DEF ReadFlag, Done, Reading
  <2> QED
    BY <2>2, <2>3, <2>4
<1>3. CASE ReadValue
  <2>1. IsOptions(opts)' /\ opts'.files = opts.files /\ at' \in Nat \ {0}
    <3>1. CASE UNCHANGED << at, opts >>
      BY <3>1 DEF Types
    <3>2. CASE ~UNCHANGED << at, opts >>
      <4>1. /\ argv[at] \in ValueOptions /\ at + 1 \in 1 .. Len(argv)
            /\ opts' = [opts EXCEPT ![Field(argv[at])] = argv[at + 1]] /\ at' = at + 2
        BY <1>3, <3>2 DEF ReadValue, Types
      <4>2. argv[at + 1] \in STRING
        BY <4>1 DEF Types
      <4>3. Field(argv[at]) \in {"Q", "T", "dialect", "f"}
        BY <4>1 DEF Field, ValueOptions
      <4> QED
        BY <4>1, <4>2, <4>3 DEF Types, IsOptions
    <3> QED
      BY <3>1, <3>2
  <2>2. Types'
    BY <1>3, <2>1 DEF ReadValue, Types
  <2>3. Settled' /\ Done'
    BY <1>3 DEF ReadValue, Settled, Done, Fail, Exit, Reading, Querying, Writing
  <2>4. ExitCodeTells'
    BY <1>3, NoStatusYet, FailureTells DEF ReadValue, Done, Reading
  <2> QED
    BY <2>2, <2>3, <2>4
<1>4. CASE ReadFile
  <2>1. IsOptions(opts)' /\ Len(opts'.files) <= 3 /\ at' \in Nat \ {0}
    <3>1. argv[at] \in STRING
      BY <1>4 DEF ReadFile, Types
    <3>2. CASE Len(opts.files) = 3
      BY <1>4, <3>2 DEF ReadFile, Types
    <3>3. CASE Len(opts.files) # 3
      <4>1. opts.files \in Seq(STRING) /\ Len(opts.files) + 1 <= 3
        <5>1. \A n \in Nat : n <= 3 /\ n # 3 => n + 1 <= 3
          OBVIOUS
        <5> QED
          BY <3>3, <5>1, FilesType
      <4>2. Append(opts.files, argv[at]) \in Seq(STRING) /\ Len(Append(opts.files, argv[at])) <= 3
        BY <4>1, <3>1
      <4>3. opts' = [opts EXCEPT !.files = Append(opts.files, argv[at])] /\ at' = at + 1
        BY <1>4, <3>3 DEF ReadFile
      <4> QED
        BY <4>2, <4>3 DEF Types, IsOptions
    <3> QED
      BY <3>2, <3>3
  <2>2. Types'
    BY <1>4, <2>1 DEF ReadFile, Types
  <2>3. Settled' /\ Done'
    BY <1>4 DEF ReadFile, Settled, Done, Fail, Exit, Reading, Querying, Writing
  <2>4. ExitCodeTells'
    BY <1>4, NoStatusYet, FailureTells DEF ReadFile, Done, Reading
  <2> QED
    BY <2>2, <2>3, <2>4
<1>5. CASE ReadUnknown
  <2>1. Types'
    BY <1>5 DEF ReadUnknown, Types
  <2>2. Settled' /\ Done'
    BY <1>5 DEF ReadUnknown, Settled, Done, Fail, Exit, Reading, Querying, Writing
  <2>3. ExitCodeTells'
    BY <1>5, FailureTells DEF ReadUnknown
  <2> QED
    BY <2>1, <2>2, <2>3
<1>6. CASE ChooseMode
  <2>1. Types'
    BY <1>6 DEF ChooseMode, Types
  <2>2. Settled'
    <3>1. \A n \in Nat : n <= 3 => n < 3 \/ n = 3
      OBVIOUS
    <3>2. Len(opts.files) < 3 \/ Len(opts.files) = 3
      BY <3>1, FilesType
    <3> QED
      BY <1>6, <3>2 DEF ChooseMode, Settled, Fail, Exit, Go, Querying, Writing
  <2>3. Done'
    BY <1>6 DEF ChooseMode, Done, Fail, Exit, Go, Reading, Querying, Writing
  <2>4. ExitCodeTells'
    BY <1>6, NoStatusYet, FailureTells DEF ChooseMode, Done, Go, Reading
  <2> QED
    BY <2>1, <2>2, <2>3, <2>4
<1> QED
  BY <1>1, <1>2, <1>3, <1>4, <1>5, <1>6 DEF Arguments

(* From the mapping to the database.                                       *)
LEMMA PreparingIInv ==
  ASSUME IInv, PrintQuery \/ ParseMapping \/ OpenDatabase
  PROVE  IInv'
<1> USE DEF IInv, world
<1>1. CASE PrintQuery
  <2>1. out' \in Seq(Lines)
    <3>1. Line("query", {}) \in Lines
      BY LineType
    <3> QED
      BY <1>1, <3>1, OneLineMore DEF PrintQuery, Types
  <2>2. Types'
    BY <1>1, <2>1 DEF PrintQuery, Types
  <2>3. Settled' /\ Done'
    BY <1>1 DEF PrintQuery, Settled, Done, Fail, Exit, Reading, Querying, Writing
  <2>4. ExitCodeTells'
    <3>1. file = Old /\ opts.T = Empty
      BY <1>1 DEF PrintQuery, Done, Settled, Reading
    <3>2. UNCHANGED << file, opts >>
      BY <1>1 DEF PrintQuery
    <3>3. CASE Fail("query")
      BY <3>3, FailureTells
    <3>4. CASE exit' = 0
      BY <3>1, <3>2, <3>4 DEF ExitCodeTells
    <3> QED
      BY <1>1, <3>3, <3>4 DEF PrintQuery, Exit
  <2> QED
    BY <2>2, <2>3, <2>4
<1>2. CASE ParseMapping
  <2>1. Types'
    BY <1>2 DEF ParseMapping, Types
  <2>2. Settled' /\ Done'
    <3>1. CASE Fail("mapping")
      BY <1>2, <3>1 DEF ParseMapping, Settled, Done, Fail, Exit, Reading, Querying, Writing
    <3>2. CASE phase' = "exited"
      BY <1>2, <3>2 DEF ParseMapping, Settled, Done, Reading, Querying, Writing
    <3>3. CASE phase' = AfterMapping /\ mapping' \in {"whole", "faulty", "empty"} /\ UNCHANGED exit
      BY <1>2, <3>3 DEF ParseMapping, AfterMapping, Settled, Done, Reading, Querying, Writing
    <3>4. mapping' \in {"whole", "faulty", "invalid", "empty"} \/ Fail("mapping")
      BY <1>2 DEF ParseMapping
    <3> QED
      BY <1>2, <3>1, <3>2, <3>3, <3>4 DEF ParseMapping, Exit
  <2>3. ExitCodeTells'
    <3>1. CASE Fail("mapping")
      BY <3>1, FailureTells
    <3>2. CASE UNCHANGED exit
      BY <1>2, <3>2, NoStatusYet DEF ParseMapping, Done, Reading
    <3>3. CASE exit' = 1 /\ "invalid-mapping" \in err'
      BY <3>3 DEF ExitCodeTells
    <3> QED
      BY <1>2, <3>1, <3>2, <3>3 DEF ParseMapping, Exit
  <2> QED
    BY <2>1, <2>2, <2>3
<1>3. CASE OpenDatabase
  <2>1. Types'
    BY <1>3 DEF OpenDatabase, Types
  <2>2. Settled' /\ Done'
    BY <1>3 DEF OpenDatabase, Settled, Done, Fail, Exit, Go, Reading, Querying, Writing
  <2>3. ExitCodeTells'
    BY <1>3, NoStatusYet, FailureTells DEF OpenDatabase, Done, Go, Reading
  <2> QED
    BY <2>1, <2>2, <2>3
<1> QED
  BY <1>1, <1>2, <1>3

-----------------------------------------------------------------------------
(* The result of a query is any number of rows.                            *)
LEMMA FetchType ==
  ASSUME Fetch
  PROVE  columns' \in Results /\ rows' \in [all : Nat, left : Nat] /\ rows'.left = rows'.all
<1>1. PICK n \in 0 .. MaxRows : rows' = [all |-> n, left |-> n]
  BY DEF Fetch
<1>2. n \in Nat
  BY <1>1, InputsAssumption
<1> QED
  BY <1>1, <1>2 DEF Fetch

(* The header and a line more: a row more if the line is that of a row.    *)
LEMMA PrintedLine ==
  ASSUME Types, NEW l \in Lines, out' = out \o Header \o << l >>
  PROVE  /\ out' \in Seq(Lines)
         /\ Cardinality(RowLines(out)) \in Nat
         /\ Cardinality(RowLines(out')) = Cardinality(RowLines(out)) + (IF l.what = "row" THEN 1 ELSE 0)
<1> DEFINE h == Line("header", RowNames)
<1>1. h \in Lines /\ h.what # "row"
  BY LineType, RowNamesType
<1>2. out \in Seq(Lines)
  BY DEF Types
<1>3. CASE Header = << h >>
  <2>1. out' = Append(Append(out, h), l)
    BY <1>1, <1>2, <1>3
  <2>2. /\ Append(out, h) \in Seq(Lines)
        /\ Cardinality(RowLines(out)) \in Nat
        /\ Cardinality(RowLines(Append(out, h))) = Cardinality(RowLines(out))
    BY <1>1, <1>2, OneLineMore
  <2> HIDE DEF h
  <2> QED
    BY <2>1, <2>2, OneLineMore
<1>4. CASE Header = << >>
  <2>1. out' = Append(out, l)
    BY <1>2, <1>4
  <2> QED
    BY <2>1, <1>2, OneLineMore
<1> QED
  BY <1>3, <1>4 DEF Header

LEMMA TranslationIInv == ASSUME IInv, Translation PROVE IInv'
<1> USE DEF IInv, world
<1>1. CASE CreateDialect
  <2>1. Types'
    BY <1>1 DEF CreateDialect, Types
  <2>2. Settled' /\ Done'
    BY <1>1 DEF CreateDialect, Settled, Done, Fail, Exit, Go, Reading, Querying, Writing
  <2>3. ExitCodeTells'
    BY <1>1, NoStatusYet, FailureTells DEF CreateDialect, Done, Go, Reading
  <2> QED
    BY <2>1, <2>2, <2>3
<1>2. CASE LoadCatalog
  <2>1. Types'
    BY <1>2 DEF LoadCatalog, Types
  <2>2. Settled' /\ Done'
    BY <1>2 DEF LoadCatalog, Settled, Done, Reading, Querying, Writing
  <2>3. ExitCodeTells'
    BY <1>2, NoStatusYet DEF LoadCatalog, Done, Reading
  <2> QED
    BY <2>1, <2>2, <2>3
<1>3. CASE Translate
  <2>1. out' \in Seq(Lines)
    <3>1. Line("sql", {}) \in Lines
      BY LineType
    <3> QED
      BY <1>3, <3>1, OneLineMore DEF Translate, Types
  <2>2. Types'
    BY <1>3, <2>1 DEF Translate, Types
  <2>3. Settled' /\ Done'
    BY <1>3 DEF Translate, Settled, Done, Fail, Exit, Reading, Querying, Writing
  <2>4. ExitCodeTells'
    <3>1. file = Old /\ UNCHANGED << file, open >>
      BY <1>3 DEF Translate, Done, Reading
    <3>2. CASE Fail("translation")
      BY <3>2, FailureTells
    <3>3. CASE ~open /\ exit' = 0
      BY <3>1, <3>3 DEF ExitCodeTells
    <3>4. CASE UNCHANGED exit
      BY <1>3, <3>4, NoStatusYet DEF Translate, Done, Reading
    <3> QED
      BY <1>3, <3>2, <3>3, <3>4 DEF Translate, Exit
  <2> QED
    BY <2>2, <2>3, <2>4
<1>4. CASE Run
  <2>1. Types' /\ (Fetch => rows'.left = rows'.all)
    BY <1>4, FetchType DEF Run, Types
  <2>2. Settled'
    BY <1>4 DEF Run, Settled, Fail, Exit, Go, Querying, Writing
  <2>3. Done'
    <3>1. CASE Fail("execution")
      BY <1>4, <3>1 DEF Run, Done, Fail, Exit, Reading, Writing
    <3>2. CASE Fetch /\ Go("print")
      <4>1. out' = << >> /\ RowLines(out') = {}
        BY <1>4 DEF Run, Done, Reading, RowLines
      <4>2. Cardinality(RowLines(out')) + rows'.left = rows'.all
        <5>1. Cardinality(RowLines(out')) = 0
          BY <4>1, FS_EmptySet
        <5>2. rows'.left \in Nat /\ rows'.left = rows'.all
          BY <3>2, FetchType
        <5> QED
          BY <5>1, <5>2
      <4> QED
        BY <1>4, <3>2, <4>2 DEF Run, Done, Go, Reading, Writing
    <3> QED
      BY <1>4, <3>1, <3>2 DEF Run
  <2>4. ExitCodeTells'
    BY <1>4, NoStatusYet, FailureTells DEF Run, Done, Go, Reading
  <2> QED
    BY <2>1, <2>2, <2>3, <2>4
<1>5. CASE PrintRow
  <2>1. CASE Fail("value") /\ out' = out \o Header \o << Line("part", {}) >> /\ UNCHANGED rows
    <3>1. Line("part", {}) \in Lines
      BY LineType
    <3>2. Types'
      BY <1>5, <2>1, <3>1, PrintedLine DEF PrintRow, Types
    <3>3. Settled' /\ Done'
      BY <1>5, <2>1 DEF PrintRow, Settled, Done, Fail, Exit, Reading, Querying, Writing
    <3> QED
      BY <2>1, <3>2, <3>3, FailureTells
  <2>2. CASE /\ out' = out \o Header \o << Line("row", RowNames) >>
             /\ rows' = [rows EXCEPT !.left = @ - 1]
             /\ UNCHANGED << phase, err, exit >>
    <3>1. Line("row", RowNames) \in Lines /\ Line("row", RowNames).what = "row"
      BY LineType, RowNamesType
    <3>2. /\ out' \in Seq(Lines) /\ Cardinality(RowLines(out)) \in Nat
          /\ Cardinality(RowLines(out')) = Cardinality(RowLines(out)) + 1
      BY <2>2, <3>1, PrintedLine
    <3>3. /\ rows' \in [all : Nat, left : Nat] /\ rows'.left <= rows'.all
          /\ rows'.all = rows.all /\ rows'.left = rows.left - 1
      BY <1>5, <2>2, SMTT(30) DEF PrintRow, Types
    <3>4. Types'
      BY <1>5, <2>2, <3>2, <3>3 DEF PrintRow, Types
    <3>5. Settled'
      BY <1>5, <2>2 DEF PrintRow, Settled, Querying, Writing
    <3>6. Cardinality(RowLines(out')) + rows'.left = rows'.all
      <4>1. Cardinality(RowLines(out)) + rows.left = rows.all
        BY <1>5 DEF PrintRow, Done
      <4>2. rows.left \in Nat /\ rows.all \in Nat
        BY DEF Types
      <4>3. \A c, l, a \in Nat : c + l = a => (c + 1) + (l - 1) = a
        OBVIOUS
      <4>4. (Cardinality(RowLines(out)) + 1) + (rows.left - 1) = rows.all
        <5>1. Cardinality(RowLines(out)) \in Nat
          BY <3>2
        <5> QED
          BY <5>1, <4>1, <4>2, <4>3
      <4> QED
        BY <4>4, <3>2, <3>3
    <3>7. Done'
      BY <1>5, <2>2, <3>6 DEF PrintRow, Done, Reading, Writing
    <3>8. ExitCodeTells'
      BY <1>5, <2>2, NoStatusYet DEF PrintRow, Done
    <3> QED
      BY <3>4, <3>5, <3>7, <3>8
  <2> QED
    BY <1>5, <2>1, <2>2 DEF PrintRow
<1>6. CASE PrintEnd
  <2>1. Types'
    BY <1>6 DEF PrintEnd, Types
  <2>2. Settled' /\ Done'
    BY <1>6 DEF PrintEnd, Settled, Done, Exit, Reading, Querying, Writing
  <2>3. ExitCodeTells'
    <3>1. Cardinality(RowLines(out)) + rows.left = rows.all /\ rows.left = 0 /\ file = Old
      BY <1>6 DEF PrintEnd, Done
    <3>2. IsFiniteSet(RowLines(out)) /\ Cardinality(RowLines(out)) \in Nat
      BY OneLineMore, LineType DEF Types
    <3>3. Cardinality(RowLines(out)) = rows.all
      BY <3>1, <3>2
    <3> QED
      BY <1>6, <3>1, <3>3 DEF PrintEnd, Exit, ExitCodeTells, RowLines
  <2> QED
    BY <2>1, <2>2, <2>3
<1> QED
  BY <1>1, <1>2, <1>3, <1>4, <1>5, <1>6 DEF Translation

-----------------------------------------------------------------------------
LEMMA ConversionIInv == ASSUME IInv, Conversion PROVE IInv'
<1> USE DEF IInv, world
<1>1. CASE OpenOutput
  <2>1. Types'
    BY <1>1, FetchType DEF OpenOutput, Types
  <2>2. Settled' /\ Done'
    BY <1>1 DEF OpenOutput, Settled, Done, Fail, Exit, Go, Reading, Querying, Writing
  <2>3. ExitCodeTells'
    BY <1>1, NoStatusYet, FailureTells DEF OpenOutput, Done, Go, Writing
  <2> QED
    BY <2>1, <2>2, <2>3
<1>2. CASE ConvertRow
  <2>1. Types'
    BY <1>2 DEF ConvertRow, Types
  <2>2. Settled' /\ Done'
    BY <1>2 DEF ConvertRow, Settled, Done, Reading, Querying, Writing
  <2>3. ExitCodeTells'
    BY <1>2, NoStatusYet DEF ConvertRow, Done, Writing
  <2> QED
    BY <2>1, <2>2, <2>3
<1>3. CASE Flush
  <2>1. Types'
    BY <1>3 DEF Flush, Types
  <2>2. Settled' /\ Done'
    BY <1>3 DEF Flush, Settled, Done, Reading, Querying, Writing
  <2>3. ExitCodeTells'
    BY <1>3, NoStatusYet DEF Flush, Done, Writing
  <2> QED
    BY <2>1, <2>2, <2>3
<1>4. CASE ConversionFails
  <2>1. Types'
    BY <1>4 DEF ConversionFails, Types
  <2>2. Settled' /\ Done'
    BY <1>4 DEF ConversionFails, Settled, Done, Reading, Querying, Writing
  <2>3. ExitCodeTells'
    BY <1>4, NoStatusYet DEF ConversionFails, Done, Writing
  <2> QED
    BY <2>1, <2>2, <2>3
<1>5. CASE ConversionEnds
  <2>1. Types'
    BY <1>5 DEF ConversionEnds, Types
  <2>2. Settled' /\ Done'
    BY <1>5 DEF ConversionEnds, Settled, Done, Go, Reading, Querying, Writing
  <2>3. ExitCodeTells'
    BY <1>5, NoStatusYet DEF ConversionEnds, Done, Go, Writing
  <2> QED
    BY <2>1, <2>2, <2>3
<1>6. CASE Close
  <2>1. Types'
    BY <1>6 DEF Close, Types
  <2>2. Settled' /\ Done'
    BY <1>6 DEF Close, Settled, Done, Exit, Reading, Querying, Writing
  <2>3. ExitCodeTells'
    <3>1. opts'.T = Empty /\ rows' = rows
      BY <1>6 DEF Close, Settled, Writing
    <3>2. CASE "conversion" \in err
      BY <1>6, <3>2 DEF Close, Exit, ExitCode, ExitCodeTells
    <3>3. CASE "conversion" \notin err
      <4>1. rows.left = 0 /\ "conversion" \notin err'
        BY <1>6, <3>3 DEF Close, Exit, ExitCode, Done
      <4>2. exit' = 0
        BY <1>6, <3>3 DEF Close, Exit, ExitCode
      <4> QED
        BY <3>1, <4>1, <4>2 DEF ExitCodeTells
    <3> QED
      BY <3>2, <3>3
  <2> QED
    BY <2>1, <2>2, <2>3
<1> QED
  BY <1>1, <1>2, <1>3, <1>4, <1>5, <1>6 DEF Conversion

LEMMA StepIInv == ASSUME IInv, [Next]_vars PROVE IInv'
<1>1. CASE Next
  BY <1>1, ArgumentsIInv, PreparingIInv, TranslationIInv, ConversionIInv DEF Next
<1>2. CASE UNCHANGED vars
  BY <1>2 DEF IInv, Types, Settled, Done, ExitCodeTells, vars
<1> QED
  BY <1>1, <1>2

-----------------------------------------------------------------------------
(* A program that exits with 0 has converted every row or printed every    *)
(* row of the result, one that exits with 1 has said why (main), for every *)
(* command line, any number of rows and any failure on the way.            *)
THEOREM ExitCodeIsTrue == Spec => []ExitCodeTells
<1>1. IInv => ExitCodeTells
  BY DEF IInv
<1> QED
  BY <1>1, InitIInv, StepIInv, PTL DEF Spec

(* The old output is touched only when the arguments are those of a        *)
(* conversion, the mapping is valid and the database is open (main).       *)
THEOREM OutputIsTouchedLast == Spec => OutputTouchedLast
<1> DEFINE Ready == /\ open /\ mapping \in {"whole", "faulty", "empty"}
                    /\ opts.Q = Empty /\ opts.T = Empty /\ Len(opts.files) = 3
<1>1. ASSUME IInv, [Next]_vars PROVE [file' # file => Ready]_vars
  <2>1. phase \in Writing => Ready
    BY <1>1 DEF IInv, Settled
  <2>2. CASE phase \in Writing
    BY <2>1, <2>2
  <2>3. CASE phase \notin Writing
    <3>1. CASE Arguments
      BY <3>1 DEF Arguments, Help, ReadFlag, ReadValue, ReadFile, ReadUnknown, ChooseMode, world
    <3>2. CASE PrintQuery \/ ParseMapping \/ OpenDatabase
      BY <3>2 DEF PrintQuery, ParseMapping, OpenDatabase, world
    <3>3. CASE Translation
      BY <3>3 DEF Translation, CreateDialect, LoadCatalog, Translate, Run, PrintRow, PrintEnd, world
    <3>4. CASE Conversion
      BY <2>3, <3>4 DEF Conversion, OpenOutput, ConvertRow, Flush, ConversionFails, ConversionEnds, Close, Writing
    <3>5. CASE UNCHANGED vars
      BY <3>5
    <3> QED
      BY <1>1, <3>1, <3>2, <3>3, <3>4, <3>5 DEF Next
  <2> QED
    BY <2>2, <2>3
<1> QED
  BY <1>1, InitIInv, StepIInv, PTL DEF Spec, OutputTouchedLast

-----------------------------------------------------------------------------
(* Which arguments are the value of an option, for command lines of any    *)
(* length: the recursive function IsValue exists, which is shown argument  *)
(* by argument.                                                            *)
Marks(a, n, f) ==
  f = [k \in 0 .. n |-> IF k <= 1 THEN FALSE ELSE a[k - 1] \in ValueOptions /\ ~f[k - 1]]

LEMMA LeastNumber ==
  ASSUME NEW T \in SUBSET Nat, T # {}
  PROVE  \E n \in T : \A m \in T : ~(m < n)
<1>1. IsWellFoundedOn(OpToRel(<, Nat), Nat)
  BY NatLessThanWellFounded
<1>2. PICK n \in T : \A m \in T : ~(<< m, n >> \in OpToRel(<, Nat))
  BY <1>1, WFMin
<1>3. \A m \in T : m < n => << m, n >> \in OpToRel(<, Nat)
  BY DEF OpToRel
<1> QED
  BY <1>2, <1>3

LEMMA MarksExist ==
  ASSUME NEW a, NEW n \in Nat
  PROVE  \E f : Marks(a, n, f)
<1> DEFINE Unmarked == { m \in Nat : ~(\E f : Marks(a, m, f)) }
<1> SUFFICES ASSUME Unmarked # {} PROVE FALSE
  OBVIOUS
<1>1. PICK m \in Unmarked : \A l \in Unmarked : ~(l < m)
  BY LeastNumber
<1>2. m # 0
  <2> DEFINE f == [k \in 0 .. 0 |-> FALSE]
  <2>1. Marks(a, 0, f)
    BY DEF Marks
  <2> QED
    BY <1>1, <2>1
<1>3. m - 1 \in Nat /\ m - 1 < m /\ m = (m - 1) + 1
  BY <1>1, <1>2
<1>4. PICK f : Marks(a, m - 1, f)
  BY <1>1, <1>3
<1> DEFINE g == [k \in 0 .. m |-> IF k <= 1 THEN FALSE ELSE a[k - 1] \in ValueOptions /\ ~f[k - 1]]
<1>5. ASSUME NEW k \in 0 .. m - 1 PROVE g[k] = f[k]
  BY <1>3, <1>4, k \in 0 .. m DEF Marks
<1>6. ASSUME NEW k \in 0 .. m
      PROVE  g[k] = IF k <= 1 THEN FALSE ELSE a[k - 1] \in ValueOptions /\ ~g[k - 1]
  <2>1. CASE k <= 1
    BY <2>1
  <2>2. CASE ~(k <= 1)
    <3>1. k - 1 \in 0 .. m - 1
      BY <1>3, <2>2
    <3>2. g[k - 1] = f[k - 1]
      BY <1>5, <3>1
    <3>3. g[k] = (a[k - 1] \in ValueOptions /\ ~f[k - 1])
      BY <2>2
    <3> QED
      BY <2>2, <3>2, <3>3
  <2> QED
    BY <2>1, <2>2
<1>7. g = [k \in 0 .. m |-> IF k <= 1 THEN FALSE ELSE a[k - 1] \in ValueOptions /\ ~g[k - 1]]
  <2>1. DOMAIN g = 0 .. m
    OBVIOUS
  <2>2. g = [k \in 0 .. m |-> g[k]]
    OBVIOUS
  <2> HIDE DEF g
  <2> QED
    BY <1>6, <2>2
<1> HIDE DEF g
<1> QED
  BY <1>1, <1>7 DEF Marks

LEMMA ValueMarks ==
  ASSUME argv \in Seq(STRING)
  PROVE  /\ \A k \in 0 .. Len(argv) : IsValue[k] \in BOOLEAN
         /\ \A k \in 0 .. Len(argv) : k <= 1 => ~IsValue[k]
         /\ \A k \in 2 .. Len(argv) : IsValue[k] <=> argv[k - 1] \in ValueOptions /\ ~IsValue[k - 1]
<1> DEFINE f == CHOOSE f : Marks(argv, Len(argv), f)
<1>1. IsValue = f
  BY DEF IsValue, Marks
<1>2. Marks(argv, Len(argv), f)
  BY MarksExist
<1>3. IsValue = [k \in 0 .. Len(argv) |-> IF k <= 1 THEN FALSE ELSE argv[k - 1] \in ValueOptions /\ ~IsValue[k - 1]]
  BY <1>1, <1>2 DEF Marks
<1>4. \A k \in 0 .. Len(argv) : IsValue[k] = IF k <= 1 THEN FALSE ELSE argv[k - 1] \in ValueOptions /\ ~IsValue[k - 1]
  BY <1>3
<1>5. \A k \in 0 .. Len(argv) : IsValue[k] \in BOOLEAN
  BY <1>4
<1>6. \A k \in 2 .. Len(argv) : k \in 0 .. Len(argv) /\ ~(k <= 1)
  OBVIOUS
<1> QED
  BY <1>4, <1>5, <1>6

-----------------------------------------------------------------------------
(* What the options are while the arguments are read: those of the ones    *)
(* before the next.                                                        *)
Before(option) == { k \in 2 .. at - 1 : IsValue[k] /\ argv[k - 1] = option }

FlagsBefore == { k \in 1 .. at - 1 : ~IsValue[k] /\ argv[k] \in Flags }
FilesBefore == { k \in 1 .. at - 1 : ~IsValue[k] /\ argv[k] \notin Flags \cup ValueOptions }

UpTo(places, k) == { j \in places : j <= k }

Listed(files, places) ==
  /\ Len(files) = Cardinality(places)
  /\ \A k \in places : files[Cardinality(UpTo(places, k))] = argv[k]

OptionsSoFar ==
  /\ at <= Len(argv) + 1
  /\ at <= Len(argv) => ~IsValue[at]
  /\ \A option \in ValueOptions : opts[Field(option)] = Latest(option, Before(option))
  /\ opts.given = { argv[k] : k \in FlagsBefore }
  /\ Listed(opts.files, FilesBefore)

OInv ==
  /\ Types
  /\ phase # "exited" => OptionsSoFar
  /\ phase \notin {"exited", "arguments"} => at = Len(argv) + 1

LEMMA SameMarks == ASSUME argv' = argv PROVE IsValue' = IsValue
BY DEF IsValue

LEMMA SameOptions ==
  ASSUME OptionsSoFar, UNCHANGED << argv, at, opts >>
  PROVE  OptionsSoFar'
<1>1. IsValue' = IsValue
  BY SameMarks
<1>2. \A option : Before(option)' = Before(option)
  BY <1>1 DEF Before
<1>3. FlagsBefore' = FlagsBefore /\ FilesBefore' = FilesBefore
  BY <1>1 DEF FlagsBefore, FilesBefore
<1> QED
  BY <1>1, <1>2, <1>3 DEF OptionsSoFar, Latest, Listed

LEMMA InitOInv == Init => OInv
<1> SUFFICES ASSUME Init PROVE OInv
  OBVIOUS
<1>1. Types /\ argv \in Seq(STRING) /\ at = 1 /\ opts = NoOptions /\ phase = "arguments"
  BY InitIInv DEF Init, IInv, Types
<1>2. Len(argv) \in Nat /\ (1 <= Len(argv) => ~IsValue[1])
  BY <1>1, ValueMarks
<1>3. FlagsBefore = {} /\ FilesBefore = {} /\ \A option : Before(option) = {}
  BY <1>1 DEF FlagsBefore, FilesBefore, Before
<1>4. \A option \in ValueOptions : opts[Field(option)] = Latest(option, Before(option))
  BY <1>1, <1>3 DEF Latest
<1>5. Listed(opts.files, FilesBefore)
  BY <1>1, <1>3, FS_EmptySet DEF Listed, NoOptions
<1>6. opts.given = { argv[k] : k \in FlagsBefore }
  BY <1>1, <1>3 DEF NoOptions
<1> QED
  BY <1>1, <1>2, <1>3, <1>4, <1>5, <1>6 DEF OInv, OptionsSoFar

(* One more place at the end of the list.                                  *)
LEMMA ListedNext ==
  ASSUME NEW files \in Seq(STRING), NEW n \in Nat, NEW places \in SUBSET (1 .. n - 1),
         Listed(files, places), argv[n] \in STRING
  PROVE  Listed(Append(files, argv[n]), places \cup {n})
<1> DEFINE more == Append(files, argv[n])
<1>1. IsFiniteSet(places) /\ Cardinality(places) \in Nat /\ n \notin places
  <2>1. IsFiniteSet(1 .. n - 1)
    BY FS_Interval
  <2>2. IsFiniteSet(places) /\ Cardinality(places) \in Nat
    BY <2>1, FS_Subset, FS_CardinalityType
  <2>3. n \notin places
    <3>1. ~(n \in 1 .. n - 1)
      OBVIOUS
    <3> QED
      BY <3>1
  <2> QED
    BY <2>2, <2>3
<1>2. Cardinality(places \cup {n}) = Cardinality(places) + 1
  BY <1>1, FS_AddElement
<1>3. Len(more) = Len(files) + 1 /\ more[Len(files) + 1] = argv[n] /\ \A i \in 1 .. Len(files) : more[i] = files[i]
  OBVIOUS
<1>4. UpTo(places \cup {n}, n) = places \cup {n}
  <2>1. \A j \in 1 .. n - 1 : j <= n
    OBVIOUS
  <2>2. \A j \in places \cup {n} : j <= n
    BY <2>1
  <2> QED
    BY <2>2 DEF UpTo
<1>5. ASSUME NEW k \in places PROVE more[Cardinality(UpTo(places \cup {n}, k))] = argv[k]
  <2>1. UpTo(places \cup {n}, k) = UpTo(places, k)
    BY DEF UpTo
  <2>2. UpTo(places, k) \subseteq places /\ k \in UpTo(places, k)
    BY DEF UpTo
  <2>3. Cardinality(UpTo(places, k)) \in Nat /\ Cardinality(UpTo(places, k)) <= Cardinality(places)
        /\ IsFiniteSet(UpTo(places, k))
    BY <1>1, <2>2, FS_Subset, FS_CardinalityType
  <2>4. Cardinality(UpTo(places, k)) # 0
    BY <2>2, <2>3, FS_EmptySet
  <2>5. Cardinality(UpTo(places, k)) \in 1 .. Len(files)
    BY <1>1, <2>3, <2>4 DEF Listed
  <2> QED
    BY <1>3, <2>1, <2>5 DEF Listed
<1> QED
  BY <1>1, <1>2, <1>3, <1>4, <1>5 DEF Listed

(* The value that was read last is the latest.                             *)
LEMMA LatestNext ==
  ASSUME NEW option, NEW n \in Nat, NEW places \in SUBSET (2 .. n - 1)
  PROVE  Latest(option, places \cup {n}) = argv[n]
<1>1. n \in places \cup {n} /\ \A j \in places \cup {n} : j <= n
  OBVIOUS
<1>2. \A k \in places \cup {n} : (\A j \in places \cup {n} : j <= k) => k = n
  OBVIOUS
<1>3. (CHOOSE k \in places \cup {n} : \A j \in places \cup {n} : j <= k) = n
  BY <1>1, <1>2
<1> QED
  BY <1>3 DEF Latest

LEMMA ReadFlagOptions ==
  ASSUME Types, OptionsSoFar, ReadFlag
  PROVE  OptionsSoFar'
<1>1. /\ argv \in Seq(STRING) /\ at \in Nat \ {0} /\ at \in 1 .. Len(argv) /\ Len(argv) \in Nat
      /\ argv[at] \in Flags /\ argv[at] \notin ValueOptions /\ ~IsValue[at]
  BY DEF Types, OptionsSoFar, ReadFlag, Flags, ValueOptions
<1>2. /\ argv' = argv /\ IsValue' = IsValue /\ at' = at + 1
      /\ opts' = [opts EXCEPT !.given = @ \cup {argv[at]}]
  BY SameMarks DEF ReadFlag
<1>3. opts'.given = opts.given \cup {argv[at]} /\ opts'.files = opts.files
      /\ \A option \in ValueOptions : opts'[Field(option)] = opts[Field(option)]
  BY <1>2 DEF Types, IsOptions, Field, ValueOptions
<1>4. at' <= Len(argv) => ~IsValue[at']
  BY <1>1, <1>2, ValueMarks
<1>5. \A option : Before(option)' = Before(option)
  BY <1>1, <1>2 DEF Before
<1>6. FlagsBefore' = FlagsBefore \cup {at} /\ FilesBefore' = FilesBefore
  BY <1>1, <1>2 DEF FlagsBefore, FilesBefore
<1>7. (opts.given = { argv[k] : k \in FlagsBefore })'
  BY <1>2, <1>3, <1>6 DEF OptionsSoFar
<1>8. \A option \in ValueOptions : (opts[Field(option)] = Latest(option, Before(option)))'
  BY <1>2, <1>3, <1>5, ZenonT(30) DEF OptionsSoFar, Latest
<1>9. Listed(opts.files, FilesBefore)'
  BY <1>2, <1>3, <1>6 DEF OptionsSoFar, Listed
<1>10. (at <= Len(argv) + 1 /\ (at <= Len(argv) => ~IsValue[at]))'
  BY <1>1, <1>2, <1>4
<1> QED
  BY <1>7, <1>8, <1>9, <1>10 DEF OptionsSoFar

LEMMA ReadFileOptions ==
  ASSUME Types, OptionsSoFar, ReadFile, phase' # "exited"
  PROVE  OptionsSoFar'
<1>1. /\ argv \in Seq(STRING) /\ at \in Nat \ {0} /\ at \in 1 .. Len(argv) /\ Len(argv) \in Nat
      /\ argv[at] \in STRING /\ argv[at] \notin Flags \cup ValueOptions /\ ~IsValue[at]
  BY DEF Types, OptionsSoFar, ReadFile
<1>2. /\ argv' = argv /\ IsValue' = IsValue /\ at' = at + 1
      /\ opts' = [opts EXCEPT !.files = Append(@, argv[at])]
  BY SameMarks DEF ReadFile, Fail, Exit
<1>3. opts'.files = Append(opts.files, argv[at]) /\ opts'.given = opts.given
      /\ \A option \in ValueOptions : opts'[Field(option)] = opts[Field(option)]
  BY <1>2 DEF Types, IsOptions, Field, ValueOptions
<1>4. at' <= Len(argv) => ~IsValue[at']
  BY <1>1, <1>2, ValueMarks
<1>5. \A option : Before(option)' = Before(option)
  BY <1>1, <1>2 DEF Before
<1>6. FlagsBefore' = FlagsBefore /\ FilesBefore' = FilesBefore \cup {at}
  BY <1>1, <1>2 DEF FlagsBefore, FilesBefore
<1>7. (opts.given = { argv[k] : k \in FlagsBefore })'
  BY <1>2, <1>3, <1>6 DEF OptionsSoFar
<1>8. \A option \in ValueOptions : (opts[Field(option)] = Latest(option, Before(option)))'
  BY <1>2, <1>3, <1>5 DEF OptionsSoFar, Latest
<1>9. Listed(opts.files, FilesBefore)'
  <2>1. FilesBefore \in SUBSET (1 .. at - 1) /\ Listed(opts.files, FilesBefore) /\ opts.files \in Seq(STRING)
    BY FilesType DEF FilesBefore, OptionsSoFar
  <2>2. Listed(Append(opts.files, argv[at]), FilesBefore \cup {at})
    BY <1>1, <2>1, ListedNext
  <2> QED
    BY <1>2, <1>3, <1>6, <2>2 DEF Listed
<1>10. (at <= Len(argv) + 1 /\ (at <= Len(argv) => ~IsValue[at]))'
  BY <1>1, <1>2, <1>4
<1> QED
  BY <1>7, <1>8, <1>9, <1>10 DEF OptionsSoFar

LEMMA ReadValueOptions ==
  ASSUME Types, OptionsSoFar, ReadValue, phase' # "exited"
  PROVE  OptionsSoFar'
<1>1. /\ argv \in Seq(STRING) /\ at \in Nat \ {0} /\ at \in 1 .. Len(argv) /\ Len(argv) \in Nat
      /\ argv[at] \in ValueOptions /\ argv[at] \notin Flags /\ ~IsValue[at]
  BY DEF Types, OptionsSoFar, ReadValue, Flags, ValueOptions
<1>2. /\ argv' = argv /\ IsValue' = IsValue /\ at' = at + 2 /\ at # Len(argv)
      /\ opts' = [opts EXCEPT ![Field(argv[at])] = argv[at + 1]]
  BY SameMarks DEF ReadValue, Fail, Exit
<1>3. at + 1 \in 2 .. Len(argv) /\ IsValue[at + 1] /\ (at + 2 <= Len(argv) => ~IsValue[at + 2])
  <2>1. at + 1 \in 2 .. Len(argv) /\ (at + 1) - 1 = at
    BY <1>1, <1>2
  <2>2. IsValue[at + 1]
    BY <1>1, <2>1, ValueMarks
  <2>3. at + 2 <= Len(argv) => at + 2 \in 2 .. Len(argv) /\ (at + 2) - 1 = at + 1
    BY <1>1
  <2> QED
    BY <1>1, <2>1, <2>2, <2>3, ValueMarks
<1>4. /\ opts'.given = opts.given /\ opts'.files = opts.files
      /\ opts'[Field(argv[at])] = argv[at + 1]
      /\ \A option \in ValueOptions : option # argv[at] => opts'[Field(option)] = opts[Field(option)]
  BY <1>1, <1>2 DEF Types, IsOptions, Field, ValueOptions
<1>5. \A k \in Nat : k <= at' - 1 <=> k <= at - 1 \/ k = at \/ k = at + 1
  BY <1>1, <1>2
<1>6. ASSUME NEW option, option = argv[at] PROVE Before(option)' = Before(option) \cup {at + 1}
  <2>1. Before(option)' = { k \in 2 .. at + 1 : IsValue[k] /\ argv[k - 1] = option }
    BY <1>1, <1>2 DEF Before
  <2>2. \A k : k \in 2 .. at + 1 <=> k \in 2 .. at - 1 \/ (k = at /\ at # 1) \/ k = at + 1
    BY <1>1
  <2>3. (at + 1) - 1 = at
    BY <1>1
  <2> QED
    BY <1>1, <1>3, <1>6, <2>1, <2>2, <2>3 DEF Before
<1>7. \A option : option # argv[at] => Before(option)' = Before(option)
  BY <1>1, <1>2, <1>3, <1>5 DEF Before
<1>8. FlagsBefore' = FlagsBefore /\ FilesBefore' = FilesBefore
  BY <1>1, <1>2, <1>3, <1>5 DEF FlagsBefore, FilesBefore
<1>9. ASSUME NEW option \in ValueOptions PROVE (opts[Field(option)] = Latest(option, Before(option)))'
  <2>1. CASE option = argv[at]
    <3>1. Before(option) \in SUBSET (2 .. (at + 1) - 1) /\ at + 1 \in Nat
      BY <1>1 DEF Before
    <3>2. Latest(option, Before(option) \cup {at + 1}) = argv[at + 1]
      BY <3>1, LatestNext
    <3> QED
      BY <1>2, <1>4, <1>6, <2>1, <3>2 DEF Latest
  <2>2. CASE option # argv[at]
    <3>1. opts'[Field(option)] = opts[Field(option)] /\ Before(option)' = Before(option)
      BY <1>4, <1>7, <2>2
    <3>2. opts[Field(option)] = Latest(option, Before(option))
      BY DEF OptionsSoFar
    <3>3. Latest(option, Before(option))' = Latest(option, Before(option))
      BY <1>2, <3>1 DEF Latest
    <3> QED
      BY <3>1, <3>2, <3>3
  <2> QED
    BY <2>1, <2>2
<1>10. (opts.given = { argv[k] : k \in FlagsBefore })'
  BY <1>2, <1>4, <1>8 DEF OptionsSoFar
<1>11. Listed(opts.files, FilesBefore)'
  BY <1>2, <1>4, <1>8 DEF OptionsSoFar, Listed
<1> QED
  <2>1. (at <= Len(argv) + 1 /\ (at <= Len(argv) => ~IsValue[at]))'
    BY <1>1, <1>2, <1>3
  <2> QED
    BY <1>9, <1>10, <1>11, <2>1 DEF OptionsSoFar

(* After the arguments, nothing touches the options.                       *)
LEMMA LaterSteps ==
  ASSUME PrintQuery \/ ParseMapping \/ OpenDatabase \/ Translation \/ Conversion
  PROVE  UNCHANGED << argv, at, opts >> /\ phase # "arguments" /\ phase' # "arguments"
         /\ (phase # "exited" \/ phase' = "exited")
<1>1. CASE PrintQuery \/ ParseMapping \/ OpenDatabase
  BY <1>1 DEF PrintQuery, ParseMapping, OpenDatabase, Fail, Exit, Go, AfterMapping
<1>2. CASE Translation
  BY <1>2 DEF Translation, CreateDialect, LoadCatalog, Translate, Run, PrintRow, PrintEnd, Fail, Exit, Go
<1>3. CASE Conversion
  BY <1>3 DEF Conversion, OpenOutput, ConvertRow, Flush, ConversionFails, ConversionEnds, Close, Fail, Exit, Go
<1> QED
  BY <1>1, <1>2, <1>3

LEMMA StepOInv == ASSUME IInv, OInv, [Next]_vars PROVE OInv'
<1>1. Types'
  BY StepIInv DEF IInv
<1>2. CASE PrintQuery \/ ParseMapping \/ OpenDatabase \/ Translation \/ Conversion
  BY <1>1, <1>2, LaterSteps, SameOptions DEF OInv
<1>3. CASE ReadFlag
  BY <1>1, <1>3, ReadFlagOptions DEF OInv, ReadFlag
<1>4. CASE ReadValue
  BY <1>1, <1>4, ReadValueOptions DEF OInv, ReadValue, Fail, Exit
<1>5. CASE ReadFile
  BY <1>1, <1>5, ReadFileOptions DEF OInv, ReadFile, Fail, Exit
<1>6. CASE Help \/ ReadUnknown
  BY <1>1, <1>6 DEF OInv, Help, ReadUnknown, Fail, Exit
<1>7. CASE ChooseMode
  <2>1. UNCHANGED << argv, at, opts >> /\ at > Len(argv) /\ phase = "arguments"
    BY <1>7 DEF ChooseMode
  <2>2. at = Len(argv) + 1 /\ OptionsSoFar
    <3>1. OptionsSoFar /\ at \in Nat /\ Len(argv) \in Nat
      BY <2>1 DEF OInv, Types
    <3> QED
      BY <2>1, <3>1 DEF OptionsSoFar
  <2> QED
    BY <1>1, <2>1, <2>2, SameOptions DEF OInv
<1>8. CASE UNCHANGED vars
  BY <1>1, <1>8, SameOptions DEF OInv, vars
<1> QED
  BY <1>2, <1>3, <1>4, <1>5, <1>6, <1>7, <1>8 DEF Next, Arguments

(* Once the arguments are read the options are what they say (main), for   *)
(* every command line: an option's value is what follows it, whatever that *)
(* looks like, the last one counts, and the rest are files in their order. *)
THEOREM OptionsAreMeant == Spec => []OptionsMeant
<1>1. OInv => OptionsMeant
  <2> SUFFICES ASSUME OInv, phase \notin {"arguments", "exited"}
               PROVE  /\ \A option \in ValueOptions : opts[Field(option)] = LastValue(option)
                      /\ opts.given = { argv[k] : k \in Free(LAMBDA a : a \in Flags) }
                      /\ LET places == Free(LAMBDA a : a \notin Flags \cup ValueOptions)
                         IN  /\ Len(opts.files) = Cardinality(places)
                             /\ \A k \in places : opts.files[Cardinality({ j \in places : j <= k })] = argv[k]
    BY DEF OptionsMeant
  <2>1. OptionsSoFar /\ at - 1 = Len(argv)
    BY DEF OInv, Types
  <2>2. Free(LAMBDA a : a \in Flags) = FlagsBefore
    BY <2>1 DEF Free, FlagsBefore
  <2>3. Free(LAMBDA a : a \notin Flags \cup ValueOptions) = FilesBefore
    BY <2>1 DEF Free, FilesBefore
  <2>4. ASSUME NEW option PROVE LastValue(option) = Latest(option, Before(option))
    <3>1. { k \in 2 .. Len(argv) : IsValue[k] /\ argv[k - 1] = option } = Before(option)
      BY <2>1 DEF Before
    <3> QED
      BY <3>1 DEF LastValue
  <2> QED
    BY <2>1, <2>2, <2>3, <2>4 DEF OptionsSoFar, Listed, UpTo
<1>2. Init => IInv /\ OInv
  BY InitIInv, InitOInv
<1>3. (IInv /\ OInv) /\ [Next]_vars => (IInv /\ OInv)'
  BY StepIInv, StepOInv
<1> QED
  BY <1>1, <1>2, <1>3, PTL DEF Spec
=============================================================================
