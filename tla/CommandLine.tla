----------------------------- MODULE CommandLine -----------------------------
(***************************************************************************)
(* main: the command line of SQL2RDF++.  Arguments are read one by one;    *)
(* then a SPARQL query is parsed and printed (-Q), translated and, given a *)
(* database, run (-T), or else a database is converted into an RDF file.   *)
(* Everything outside (the texts of files, the database, the disk) is a    *)
(* choice made where the program meets it.                                 *)
(*                                                                         *)
(* An argument is a string.  A file name stands for what follows its last  *)
(* dot: "ttl" and "yml" are mapping files, "db", "out" and "rq" others.    *)
(***************************************************************************)
EXTENDS Naturals, Sequences, FiniteSets

CONSTANTS
  Invocations,  (* sequences of arguments                                  *)
  Results,    (* sets of columns that queries may return, as named      *)
  Upper,        (* std::toupper of the name of a column                    *)
  MaxRows       (* bound on the rows of a result and of a conversion       *)

(* Arguments are strings; their number is argc.                            *)
ASSUME InputsAssumption == Invocations \subseteq Seq(STRING) /\ MaxRows \in Nat

VARIABLES
  argv, at,   (* the arguments and the next one to read                    *)
  opts,       (* what the arguments have set                               *)
  phase,      (* what comes next                                           *)
  mapping,    (* the mapping: what is wrong with it                        *)
  catalog,    (* whether the translator is given the types of columns      *)
  open,       (* whether the database is open                              *)
  columns,    (* the columns of the query that runs, as it names them      *)
  rows,       (* the rows that it has, and how many of them are left       *)
  file,       (* the content of the output file                            *)
  buffer,     (* what the C library has not yet written to it              *)
  out, err,   (* what was printed                                          *)
  exit        (* the exit status, or that there is none yet                *)

vars == << argv, at, opts, phase, mapping, catalog, open, columns, rows, file, buffer, out, err, exit >>

Running == 256
Empty   == "empty"   (* the empty string                                   *)
Old     == << 0 >>   (* what the output file held before; statements are numbered from 1 *)

-----------------------------------------------------------------------------
Flags        == {"-P", "-y", "--pretty"}
ValueOptions == {"-Q", "-T", "--dialect", "-f"}
HelpOptions  == {"-h", "--help"}
Formats      == {"ntriples", "turtle"}
Unknown      == {"-x"}   (* any other argument that begins with a hyphen   *)

NoOptions == [given |-> {}, Q |-> Empty, T |-> Empty, dialect |-> "duckdb", f |-> "ntriples", files |-> << >>]

Field(option) == CASE option = "-Q" -> "Q" [] option = "-T" -> "T"
                   [] option = "--dialect" -> "dialect" [] option = "-f" -> "f"

Init ==
  /\ argv \in Invocations /\ at = 1
  /\ opts = NoOptions /\ phase = "arguments"
  /\ mapping = "none" /\ catalog = FALSE /\ open = FALSE
  /\ columns = {} /\ rows = [all |-> 0, left |-> 0]
  /\ file = Old /\ buffer = << >>
  /\ out = << >> /\ err = {} /\ exit = Running

world == << mapping, catalog, open, columns, rows, file, buffer >>

Exit(status, messages) ==
  /\ exit' = status /\ err' = err \cup messages /\ phase' = "exited"

Fail(message) == Exit(1, {message})

Go(to) == phase' = to /\ UNCHANGED << err, exit >>

-----------------------------------------------------------------------------
(* The loop over the arguments.                                            *)
Help ==
  /\ phase = "arguments"
  /\ \/ argv = << >> /\ Exit(1, {"help"})
     \/ /\ at <= Len(argv) /\ argv[at] \in HelpOptions /\ Exit(0, {"help"})
  /\ UNCHANGED << argv, at, opts, out, world >>

ReadFlag ==
  /\ phase = "arguments" /\ at <= Len(argv) /\ argv[at] \in Flags
  /\ opts' = [opts EXCEPT !.given = @ \cup {argv[at]}]
  /\ at' = at + 1
  /\ UNCHANGED << argv, phase, out, err, exit, world >>

ReadValueInPlace ==   \* variant: the value stays to be read as an argument
  /\ phase = "arguments" /\ at <= Len(argv) /\ argv[at] \in ValueOptions
  /\ IF at = Len(argv) THEN Fail("value-missing") /\ UNCHANGED << at, opts >>
     ELSE IF argv[at] = "-f" /\ argv[at + 1] \notin Formats
       THEN Fail("unknown-format") /\ UNCHANGED << at, opts >>
     ELSE /\ opts' = [opts EXCEPT ![Field(argv[at])] = argv[at + 1]]
          /\ at' = at + 1
          /\ UNCHANGED << phase, err, exit >>
  /\ UNCHANGED << argv, out, world >>

ReadValue ==
  /\ phase = "arguments" /\ at <= Len(argv) /\ argv[at] \in ValueOptions
  /\ IF at = Len(argv) THEN Fail("value-missing") /\ UNCHANGED << at, opts >>
     ELSE IF argv[at] = "-f" /\ argv[at + 1] \notin Formats
       THEN Fail("unknown-format") /\ UNCHANGED << at, opts >>
     ELSE /\ opts' = [opts EXCEPT ![Field(argv[at])] = argv[at + 1]]
          /\ at' = at + 2
          /\ UNCHANGED << phase, err, exit >>
  /\ UNCHANGED << argv, out, world >>

ReadFile ==
  /\ phase = "arguments" /\ at <= Len(argv)
  /\ argv[at] \notin Flags \cup ValueOptions \cup HelpOptions \cup Unknown
  /\ IF Len(opts.files) = 3 THEN Fail("unexpected-argument") /\ UNCHANGED << at, opts >>
     ELSE /\ opts' = [opts EXCEPT !.files = Append(@, argv[at])]
          /\ at' = at + 1
          /\ UNCHANGED << phase, err, exit >>
  /\ UNCHANGED << argv, out, world >>

ReadUnknown ==
  /\ phase = "arguments" /\ at <= Len(argv) /\ argv[at] \in Unknown
  /\ Fail("unknown-option")
  /\ UNCHANGED << argv, at, opts, out, world >>

(* The mode, and the files that it requires.                               *)
ChooseMode ==
  /\ phase = "arguments" /\ argv # << >> /\ at > Len(argv)
  /\ IF opts.Q # Empty /\ opts.T # Empty THEN Fail("both-modes")
     ELSE IF opts.Q # Empty THEN Go("query")
     ELSE IF opts.T # Empty THEN
       IF opts.files = << >> THEN Fail("mapping-file-missing")
       ELSE IF Len(opts.files) = 3 THEN Fail("output-file-with-a-query")
       ELSE Go("mapping")
     ELSE IF Len(opts.files) < 3 THEN Fail("files-missing")
     ELSE Go("mapping")
  /\ UNCHANGED << argv, at, opts, out, world >>

(* -Q *)
Line(what, cells) == [what |-> what, cells |-> cells]

PrintQuery ==
  /\ phase = "query"
  /\ \/ Fail("query") /\ UNCHANGED out
     \/ Exit(0, {}) /\ out' = Append(out, Line("query", {}))
  /\ UNCHANGED << argv, at, opts, world >>

-----------------------------------------------------------------------------
(* The parser is chosen by the name of the file unless -y chooses it.      *)
Format ==
  IF "-y" \in opts.given THEN "yarrrml"
  ELSE CASE opts.files[1] = "yml" -> "yarrrml" [] opts.files[1] = "ttl" -> "r2rml" [] OTHER -> "unknown"

AfterMappingUnopened ==   \* variant: the output file is opened before the database
  IF opts.T # Empty THEN "dialect" ELSE "output"

AfterMapping == IF opts.T # Empty THEN "dialect" ELSE "open"

(* The mapping is parsed leniently: errors that are not fatal stay in it,  *)
(* and are printed with it.  A Turtle file that cannot be read is an empty *)
(* mapping, which is valid.                                                *)
ParseMapping ==
  /\ phase = "mapping"
  /\ \/ Format \in {"yarrrml", "unknown"} /\ Fail("mapping") /\ UNCHANGED mapping
     \/ /\ Format # "unknown"
        /\ mapping' \in {"whole", "faulty", "invalid"} \cup (IF Format = "r2rml" THEN {"empty"} ELSE {})
        /\ LET printed == IF "-P" \notin opts.given THEN {}
                          ELSE {"mapping"} \cup (IF mapping' = "faulty" THEN {"parse-errors"} ELSE {})
           IN  IF mapping' = "invalid" THEN Exit(1, printed \cup {"invalid-mapping"})
               ELSE phase' = AfterMapping /\ err' = err \cup printed /\ UNCHANGED exit
  /\ UNCHANGED << argv, at, opts, catalog, open, columns, rows, file, buffer, out >>

CreateDialect ==
  /\ phase = "dialect"
  /\ IF opts.dialect # "duckdb" THEN Fail("dialect")
     ELSE Go(IF Len(opts.files) = 2 THEN "open" ELSE "translate")
  /\ UNCHANGED << argv, at, opts, out, world >>

OpenDatabase ==
  /\ phase = "open"
  /\ \/ Fail("database") /\ UNCHANGED open
     \/ open' = TRUE /\ Go(IF opts.T # Empty THEN "catalog" ELSE "output")
  /\ UNCHANGED << argv, at, opts, mapping, catalog, columns, rows, file, buffer, out >>

(* A catalog that cannot be loaded is not used.                            *)
LoadCatalog ==
  /\ phase = "catalog" /\ phase' = "translate"
  /\ \/ catalog' = TRUE /\ UNCHANGED err
     \/ err' = err \cup {"no-catalog"} /\ UNCHANGED catalog
  /\ UNCHANGED << argv, at, opts, mapping, open, columns, rows, file, buffer, out, exit >>

Translate ==
  /\ phase = "translate"
  /\ \/ Fail("translation") /\ UNCHANGED out
     \/ ~open /\ out' = Append(out, Line("sql", {})) /\ Exit(0, {})
     \/ open /\ err' = err \cup {"sql"} /\ phase' = "run" /\ UNCHANGED << exit, out >>
  /\ UNCHANGED << argv, at, opts, world >>

(* The result is fetched as a whole.                                       *)
Fetch ==
  /\ columns' \in Results
  /\ \E n \in 0 .. MaxRows : rows' = [all |-> n, left |-> n]

Run ==
  /\ phase = "run"
  /\ \/ Fail("execution") /\ UNCHANGED << columns, rows >>
     \/ Fetch /\ Go("print")
  /\ UNCHANGED << argv, at, opts, mapping, catalog, open, file, buffer, out >>

(* DuckDBConnection keeps the values of a row under upper-case names.      *)
RowNames == { Upper[c] : c \in columns }

(* The header is printed before the first value is asked for.              *)
Header == IF rows.left = rows.all THEN << Line("header", RowNames) >> ELSE << >>

PrintRow ==
  /\ phase = "print" /\ rows.left > 0
  /\ \/ Fail("value") /\ out' = out \o Header \o << Line("part", {}) >> /\ UNCHANGED rows
     \/ /\ out' = out \o Header \o << Line("row", RowNames) >>
        /\ rows' = [rows EXCEPT !.left = @ - 1]
        /\ UNCHANGED << phase, err, exit >>
  /\ UNCHANGED << argv, at, opts, mapping, catalog, open, columns, file, buffer >>

PrintEnd ==
  /\ phase = "print" /\ rows.left = 0
  /\ Exit(0, {})
  /\ UNCHANGED << argv, at, opts, out, world >>

-----------------------------------------------------------------------------
(* The conversion.  The output file is emptied when it is opened.          *)
OpenOutput ==
  /\ phase = "output"
  /\ \/ Fail("output") /\ UNCHANGED << columns, rows, file >>
     \/ /\ file' = << >> /\ Go("convert")
        /\ IF mapping = "empty" THEN UNCHANGED << columns, rows >> ELSE Fetch
  /\ UNCHANGED << argv, at, opts, mapping, catalog, open, buffer, out >>

(* processDatabase writes a statement for a row if it finds the column     *)
(* under the name that the mapping has for it; NULL generates none.        *)
Found == columns \subseteq RowNames

ConvertRow ==
  /\ phase = "convert" /\ rows.left > 0
  /\ buffer' = IF Found THEN Append(buffer, rows.left) ELSE buffer
  /\ rows' = [rows EXCEPT !.left = @ - 1]
  /\ UNCHANGED << argv, at, opts, phase, mapping, catalog, open, columns, file, out, err, exit >>

(* The C library hands on what it has buffered when it likes.              *)
Flush ==
  /\ phase = "convert" /\ buffer # << >>
  /\ file' = file \o buffer /\ buffer' = << >>
  /\ UNCHANGED << argv, at, opts, phase, mapping, catalog, open, columns, rows, out, err, exit >>

(* A query fails, a value cannot be converted or a statement not written.  *)
ConversionFails ==
  /\ phase = "convert" /\ phase' = "close"
  /\ err' = err \cup {"conversion"}
  /\ UNCHANGED << argv, at, opts, out, exit, world >>

ConversionEnds ==
  /\ phase = "convert" /\ rows.left = 0
  /\ Go("close")
  /\ UNCHANGED << argv, at, opts, out, world >>

ExitCodeAlways == 0   \* variant: an exception is reported but forgotten

ExitCode == IF "conversion" \in err THEN 1 ELSE 0

(* Nobody asks whether the last writes succeeded.                          *)
Close ==
  /\ phase = "close"
  /\ file' \in {file, file \o buffer} /\ buffer' = << >>
  /\ Exit(ExitCode, IF ExitCode = 0 THEN {"written"} ELSE {})
  /\ UNCHANGED << argv, at, opts, mapping, catalog, open, columns, rows, out >>

Arguments == Help \/ ReadFlag \/ ReadValue \/ ReadFile \/ ReadUnknown \/ ChooseMode
Translation == CreateDialect \/ LoadCatalog \/ Translate \/ Run \/ PrintRow \/ PrintEnd
Conversion == OpenOutput \/ ConvertRow \/ Flush \/ ConversionFails \/ ConversionEnds \/ Close

Next == Arguments \/ PrintQuery \/ ParseMapping \/ OpenDatabase \/ Translation \/ Conversion

Spec == Init /\ [][Next]_vars

-----------------------------------------------------------------------------
(* Once the arguments are read, the options are what they say, whatever    *)
(* their order: what follows an option that takes a value is that value,   *)
(* even when it looks like an option, the last value counts, and what is   *)
(* left are the files.                                                     *)
IsValue[k \in 0 .. Len(argv)] ==
  IF k <= 1 THEN FALSE ELSE argv[k - 1] \in ValueOptions /\ ~IsValue[k - 1]

Latest(option, places) ==
  IF places = {} THEN NoOptions[Field(option)] ELSE argv[CHOOSE k \in places : \A j \in places : j <= k]

LastValue(option) == Latest(option, { k \in 2 .. Len(argv) : IsValue[k] /\ argv[k - 1] = option })

Free(Test(_)) == { k \in 1 .. Len(argv) : ~IsValue[k] /\ Test(argv[k]) }

OptionsMeant ==
  phase \notin {"arguments", "exited"} =>
    /\ \A option \in ValueOptions : opts[Field(option)] = LastValue(option)
    /\ opts.given = { argv[k] : k \in Free(LAMBDA a : a \in Flags) }
    /\ LET places == Free(LAMBDA a : a \notin Flags \cup ValueOptions)
       IN  /\ Len(opts.files) = Cardinality(places)
           /\ \A k \in places : opts.files[Cardinality({ j \in places : j <= k })] = argv[k]

(* The old output is gone only when nothing but the conversion itself can  *)
(* fail any more: the mapping is valid, the database open, and neither a   *)
(* query nor a missing file was asked about.                               *)
OutputTouchedLast ==
  [][file' # file =>
       /\ open /\ mapping \in {"whole", "faulty", "empty"}
       /\ opts.Q = Empty /\ opts.T = Empty /\ Len(opts.files) = 3]_vars

(* A program that exits with 0 has done all that it was asked: converted   *)
(* every row that it could, or printed every row of the result; one that   *)
(* exits with 1 has said why.                                              *)
ExitCodeTells ==
  /\ exit = 1 => err # {}
  /\ exit = 0 /\ file # Old => rows.left = 0 /\ "conversion" \notin err
  /\ exit = 0 /\ phase = "exited" /\ "help" \notin err /\ opts.T # Empty /\ open =>
       Cardinality({ i \in DOMAIN out : out[i].what = "row" }) = rows.all

(* What is said to be written is in the file ("Written to").               *)
ZeroMeansWritten ==
  "written" \in err => Len(file) = (IF Found THEN rows.all ELSE 0)

(* A fault of the mapping does not pass unseen: it is printed, or the      *)
(* program fails (R2RMLParser: syntax errors "must not vanish silently").  *)
NoFaultUnseen ==
  phase = "exited" /\ mapping = "faulty" => exit = 1 \/ "parse-errors" \in err

(* Rows are read whatever the case in which a mapping writes the names of  *)
(* their columns (TypeCatalog: "SQL identifiers are case-insensitive").    *)
CaseIsIrrelevant ==
  "written" \in err /\ rows.all > 0 => Found

(* Every variable of a query has a column in what is printed               *)
(* (TranslatedPattern: "so case-sensitivity ... in the variable name are   *)
(* never an issue").                                                       *)
EveryVariableShown ==
  \A i \in DOMAIN out : out[i].what = "row" => Cardinality(out[i].cells) = Cardinality(columns)
=============================================================================
