# A verification development for sql2rdf

sql2rdf relates relational databases and RDF through R2RML mappings, in two
ways: it converts the tables of a DuckDB database to RDF (`processDatabase`), and
it translates SPARQL queries to SQL over the same tables (`SPARQL2SQLTranslator`).
Around these stand two front ends for mappings (Turtle and YARRRML), one for
SPARQL, a catalog of column types, and a command line.
This directory holds TLA+ models of all of them, TLC runs that check them on small
instances, and theorems about nine of them that TLAPS proves for instances of
every size. Line numbers refer to the files under `src/src` and `src/include`.

Contents: [the system](#the-system), [the models](#the-models),
[the runs](#the-runs), [findings](#findings), [the proofs](#the-proofs),
[what is only model-checked](#what-is-only-model-checked),
[what is not modelled](#what-is-not-modelled), [the plan](#the-plan).

## The system

The program is sequential: one thread, no callbacks except those of the Turtle
reader, no timeouts, nothing persisted but the output file. What is hard about it
is of another kind:

- **loops nested seven deep over mutable shared buffers**, with failures that
  leave them from anywhere (the conversion);
- **failures that end one part and not the whole** (a sweep of the catalog, a
  mapping read in part, an output that cannot be written);
- **text that is made now and run later**: SQL is translated from the mapping
  alone, and whatever the translator decided by looking at it (this arm can never
  match, this column is never NULL) must hold for whatever the tables hold when
  the SQL runs;
- **two readers of one mapping**, converter and translator, that must agree, on
  which rows there are and on how a value and a template become text;
- **one text read twice**: what is printed of a query, or written of a YAML mapping as
  R2RML statements, is read again by another part;
- **order**: statements of a mapping come in any order; elements of a SPARQL
  group apply to what is there so far; rewriting passes rely on earlier ones.

| Component | State | Operations | Correct if |
|---|---|---|---|
| R2RML object model, term maps (`r2rml/*.cpp`) | the maps; in each column and template map a buffer that the returned node points into | `generateRDFTerm`, `isValid` | a node shows its own row for as long as it is used |
| Mapping executor (`R2RMLMapping`, `TriplesMap`, `PredicateObjectMap`, `ReferencingObjectMap`, `GraphMap`) | cursors of the nested loops, result sets, nodes | `processDatabase` and the loops below it | the output is the dataset that the mapping denotes; when the run fails, a prefix of it |
| R2RML parser (`R2RMLParser.cpp`) | collected triples, maps being built, references awaiting parents, errors | statement callback, error callback, build, resolve, report | the mapping is what the document says in any order; what is missing is reported |
| YARRRML parser (`yarrrml/`) | the YAML tree, the store of statements, counters of blank nodes, errors | one function for each key, which writes statements; then the builder of R2RML | the mapping is what the document says; what is left out is reported |
| Mapping parser factory | none | choose by extension or option | other files are refused |
| DuckDB connection (`DuckDBConnection.cpp`) | connection, a result set's position | execute, next row, value to string | a value's string form is the one SQL compares with |
| Type catalog and loader (`TypeCatalog*`) | types, nullability and keys of columns | load by sweeps, look up | a partial catalog answers nothing false |
| Command line (`main.cpp`) | output file, writer | convert, translate, query | arguments mean the same in any order; the old output survives every mistake; the exit status tells |
| SPARQL lexer and parser (`sparql-parser/`) | token position, base and prefixes, counter of blank nodes | one function for each production | the query read is the query meant |
| SPARQL pretty-printer | indentation | one function for each kind of node | what is shown reads as what it was |
| Query translator, pattern folder (`Translator.cpp`, `PatternFolder.cpp`) | the relational tree built so far, CTEs, alias counter | fold an element, join, union, project, aggregate | the SQL has the solutions of the query |
| Triple pattern translator (`TriplePatternTranslator.cpp`) | none between calls | expand to arms, prune, unfold joins, enumerate terms | the SQL of a pattern finds the triples that a conversion would write |
| Property path translator (`PropertyPathTranslator.cpp`) | counter of internal variables | one function for each operator | the solutions of SPARQL section 18.4, as often |
| Expression translator | needs of tag columns | translate, infer | errors and NULL agree |
| Term maps as SQL, templates (`TermMapSQL`, `TemplateUtil`) | none | build, invert | an inversion never excludes a match |
| Term annotations (`TermInfo`, `TagSql`, `RelNode.cpp`) | kind, datatype, language of a column | annotate, meet, encode and decode tags, compare by tags | says nothing that a contributor denies; what is settled when the SQL is made agrees with what tags say when it runs |
| Optimizer, tag demand | the tree | passes in a fixed order | the bag of rows is unchanged |
| SQL renderer and dialects (`SqlRenderer.cpp`) | text, CTE list | render a node | the text means what the node means |
| Benchmark driver | measurements | | |
| Serd, DuckDB, yaml-cpp | external | | |

How they interact: `main` asks the factory for a parser, which builds an object
model. For a conversion it calls `processDatabase`, which queries the connection
(again for every child row and referencing object map) and hands statements to the
Serd writer. For a translation it parses a query, loads a type catalog if it may,
and calls the translator, which folds the query's groups to a relational tree; the
leaves come from the triple pattern and property path translators, which read the
object model. Tag demand and optimizer rewrite the tree, the renderer turns it
into SQL, and the connection runs that.

`PROJECT.json` lists all components with what is modelled of each, and all
hazards with the line where they bite and the properties that watch them.

## The models

```
R2RMLModel ── the object model, and the dataset that a mapping denotes
 ├─ ProcessDatabase ── the conversion      ──implements──> RdfDump
 │    └─ ProcessDatabaseProofs
 ├─ TermInfo        ── annotations of terms, their meet, run-time tags
 │    └─ TriplePattern ── a triple pattern as SQL, against the same dataset
 │         └─ TriplePatternProofs
 ├─ MappingBuild    ── from Turtle statements to a mapping
 │    └─ MappingBuildProofs
 ├─ Yarrrml         ── from a YAML document to statements, and through an
 │    │                instance of MappingBuild to a mapping
 │    └─ YarrrmlProofs
 └─ SampleMappings  ── mappings and rows for the instances
CommandLine ── arguments, the three modes, the output file
 └─ CommandLineProofs
TypeCatalog ── sweeps and lookups of the catalog, values and their texts
 └─ TypeCatalogProofs
Templates ── templates character by character: filling in, taking apart
 └─ TemplatesProofs
PathClosure ── E+ as a recursive query
 └─ PathClosureProofs
PropertyPath ── all other path operators, with bags
Relations ── the relational tree and the rows its SQL yields from tables
 └─ Optimizer ── the passes that rewrite a tree
     └─ PatternFold ── group graph patterns to trees, optimized and run,
                       against SPARQL's algebra over the mapped tables
SparqlLexer ── characters to tokens
 └─ SparqlParser ── tokens to a query
     └─ SparqlPrinter ── terms, paths and expressions to characters
         └─ SparqlSyntax ── a query written, disturbed, read, printed, read
SparqlGrammar ─────┘        again; the grammar is its reference
```

Names and texts are opaque but in Templates and the SPARQL modules: the lexical form of a term is the pair of its
constant text and the strings of the columns that were put in. Two rows then
give the same term exactly when they agree in these columns, and the model
cannot produce an accidental clash of strings (a template whose separator occurs
in the data; Templates is about those).

### R2RMLModel

A mapping is a sequence of records for triples maps; a term map is a record with
a kind (constant, column, template, or none if no strategy was recognised). The
operators are those of the code: `NodeOf` is `generateRDFTerm` of the term maps,
`ObjectNode` adds language and datatype as `PredicateObjectMap` does,
`TriplesMapValid` is `isValid` with all its parts (a subject or graph map that
wraps an empty constant is valid, a predicate or object map is not), `Joins` is
the comparison of string forms in `getJoinedRows`. `MapWellFormed` is what parsers
can build and is an invariant of MappingBuild and an assumption of
ProcessDatabase. `Denotation` is the specification: the quads that R2RML section
11 asks for, as a set comprehension without loops or buffers, but with join conditions
compared as `getJoinedRows` does (R2RML leaves that to the database). That a template or a
column over NULL yields no term, that a referencing object map without conditions
pairs with every parent row, and that `rr:defaultGraph` counts only when no named
graph is left, are in it.

### ProcessDatabase

One action for each turn of a loop and one for each exit from it. `pc` is the
innermost loop (`map`, `row`, `class`, `pom`, `predicate`, `object`, `join`,
`parent`, `graph`) or `done`/`failed`; `at` holds the cursors; `back` says whose
triple the graph loop is writing. `rows` and `prows` are the result set and the
vector `getJoinedRows` returns. A query may return rows, no result set (skipped)
or an error, which like a failed write leaves all loops (`failed`); writes may
fail at any statement (`WriteFails`).

The nodes of Serd do not own their characters. `sbuf` is, for each triples map,
the buffer that its subject node points into. A template map clears and refills
its buffer in place, also before it finds out that a column is NULL; a column map
moves a new string in; a constant map has no buffer. When a node was made
earlier from a buffer that has been rewritten since, what the writer finds
there is undefined if the storage moved or the length changed, and the new text
otherwise: `BytesAfter` is the set of outcomes and the action picks one. Only
subject maps are evaluated while one of their nodes is in use, namely as object
of a referencing object map; buffers of other maps are therefore left out.

RdfDump is the promise: quads of a fixed target are added until the output is the
target, or the dump gives up. `ImplementsDump` instantiates it with the denotation
as target.

### MappingBuild

`Statement` is the callback of the reader, in any order; `SyntaxError` the error
callback, after which the reader skips one statement and goes on. `triples` is the
store: the objects for each subject and predicate, in order of arrival.
`BuildTriplesMap` is one turn of the loop over the keys of the store and stands
for the functions below it, each of which is an operator (`TermMapOf`,
`SubjectMapOf`, `ObjectMapOf`, `GraphMapsOf`, `PomOfNode`, `TriplesMapOf`), with
the errors and the parent references each collects. `ResolveParents` is the pass
over these references; `Report` throws or returns.

Faithful details worth knowing: where a property has several values the first
that arrived counts, so that a document that gives two values may give different
mappings in different orders (the property accepts any value that was said);
`rr:subject` makes a resource a triples map but never gives it a subject (780);
a predicate map of no known kind is dropped without an error (702-705), unlike an
object or graph map; a constant literal loses language and datatype (465); a
subject map prefers its template, other maps their column.

`DocumentsAssumption` says of documents only what the type of an object in the store says: it is a
URI, a blank node or a literal, and no URI reads like the key of a blank node. `Proper` says when
a document means one mapping: a text is of the kind that R2RML gives its property, there is one
logical table and one term type where one is allowed, a join condition names two columns, only
objects refer to parents, a constant subject is a URI and is not called a literal. The code does not ask
for this, and TypeOK and GapsAreReported do not either; `SamplesAssumption` has TLC
check that the documents of the run satisfy it.

### TermInfo

An annotation says what the mapping declares of the term in a column: kind, datatype,
language, whether a contributor may have had a language (`maybeTagged`) and whether
contributors disagreed (`degraded`). `Meet` is `meet`, field by field, `MeetColumns` folds it
over the columns that feed a node, `IsFullyDetermined`, `EncodeTag` and `DecodeTag` are the
lowering to a tag and back. A tag is a pair of its first character and the rest, so that
a language can never be read as a datatype; `NoTagText` is the empty text. `TagKind`, `TagLang`,
`TagDatatype`, `ValueSpace` and `TagEquality` are what the SQL of `TagSql.cpp` computes from
tags; `KindOf`, `LangOf`, `DatatypeAnswer`, `SettledEquality` and `SameTag` what the expression
translator settles from annotations and what it leaves to the tags. Of a comparison the model keeps
how the operands are compared (as texts, numbers, times, truth values, never equal, or by guessing
numbers), not the outcome.

### TriplePattern

`Translate` is `translateAtomicPattern`: an arm for each `rr:class` and each pair
of a predicate map and an object map (`PatternArms`), dropped where inverting the
term map against a bound term shows that it cannot match (`Keeps`); or
`allTermsRelation` (`TermArms`), the terms over which a path of length zero
ranges. The arms are fixed from then on, while `Insert` and `Clear` change the
tables and `Execute` runs the SQL. The reference is the denotation of
R2RMLModel over the tables of that moment: what the other half of the program
would have written. Two simplifications are the code's own: the SQL compares terms by their
lexical forms only, and graphs play no part (`doc/api.md:746` and following says that
`rr:graph` is not supported here).

Join conditions are the exception to comparing texts. The translator writes
`child."c" = parent."p"` on the columns as they are
(`TriplePatternTranslator.cpp:578`), while `getJoinedRows` compares
`asString()` of both values (`ReferencingObjectMap.cpp:72`). So `Joined` goes by `SqlJoins`,
which asks the database (`SqlEqual`, a constant: equality of two values that are not NULL), the
denotation by `Joins`, which asks for equal texts. They agree only on columns where
equal values have equal texts (`JoinsByText`); the open configuration shows what happens
otherwise. A database may also refuse to compare columns of different types, at once or at a
value that it cannot convert: `Refuse` ends the query without an answer for the pairs of columns in
`Unlike`, and the properties are about queries that answer. The translator does not check the validity of
triples maps; the sample mappings of its runs are all valid.

Beside its text each variable of a row has a tag: that of the annotation which `annotate`
gives the term map (`Annotate`; a language or a datatype makes a literal of any map), of the
first position of the variable (`Tags`). The annotation of the variable meets all its positions
(`ArmAnnotation`) and all arms (`PatternAnnotation`, `TermsAnnotation`). `Describes` relates
either to a term, and `TermsAsAnnotated` asks that every tag is true of a term the conversion
writes and every annotation of every row. The code renders a tag column only where a consumer
asks for it; here it is always there. `Natural` is the datatype that the type catalog gives to a
column; in the instance it is the one that the conversion writes (for which columns
they differ is the matter of `NaturalDatatypesAgree` in TypeCatalog).

The inversion of a template (`TemplateUtil`) is modelled here by its outcome: a column
may produce any term, a template those with its own literal segments, a constant
just one. Templates models it as it is done.

`Translatable`, `ParentsAreNodes`, `JoinsByText`, `Declared` and `CatalogIsShown` name what the theorems
about this module assume of a mapping, of the values it joins and of the catalog; `SamplesAssumption` of
MCTriplePattern makes TLC see that the samples satisfy them. In the samples texts are joined with texts
and texts with numbers, which MCSqlEqual compares as numbers.

### Yarrrml

`ReadRoot` takes prefixes, sources and mappings; then for each mapping, in the order
of the document, come `Skip`, or `LogicalTable`, `Entry` for each of its predicate-object
entries and `SubjectAndLinks`; `ParseCollected` and `BuildMapping` hand the statements to
the builder. Below them is an operator for each
function that writes statements, in the order in which the code writes them, with its
warnings. Statements go into the same store as those of Turtle, a function from subject
and property to objects in order of arrival, and blank nodes are minted from
counters, as `BlankNodeMinter` does. `Build` is an instance of MappingBuild whose
variables are the store, the maps, the references and the errors of this module:
what the builder and the resolution of parents do there, they do here, and an error is
returned or thrown as there.

The reference, `MeantMap`, is the triples map that an author of R2RML would have
written for a mapping: without statements and nodes, from the pairs of predicates and
objects (`MeantPairs`), the classes (`MeantClasses`) and the one subject and source
that count. `Lost` says, without the code's tests, when something that is written has no
place in what was built: fewer pairs, conditions or maps than were written, a
second source, graphs, unknown keys. Scalars are sequences of tokens, so that
`$(column)`, `prefix:name`, `~iri` and `~lang` are told apart as in the code, by their
parts; the characters of an escaped brace are not modelled.

The loops over conditions, objects, predicates and statements are instances of `Loop`, a function of
how far a loop has come, which the proofs can take step by step. The names of blank nodes are a parameter,
`NodeName`; in the instance they are those of the code. `YamlNodes` are the nodes that a document
may consist of, and `DocumentsAssumption` says that these are closed under their parts, that
a list is a sequence, and that the order in which yaml-cpp yields the mappings names each once.

### CommandLine

One action for each turn of the loop over the arguments (`Help`, `ReadFlag`, `ReadValue`,
`ReadFile`, `ReadUnknown`), then `ChooseMode` and a step for each thing the three modes
do that may fail: parsing a query, the factory and the mapping, opening the
database, loading the catalog, translating, running, printing a row; opening the
output, converting a row, writing a full buffer, closing. The environment chooses the
outcome where the program meets it. `file` is the output file and `buffer` what the C
library still holds, since the calls that write it (`serd_writer_finish`, `fclose`)
have their results ignored. A result set is a set of column names, of which a row keeps
the upper-case form (`RowNames`). The exit status is 256 while there is none.

### TypeCatalog

The loader reads three kinds of result sets, row by row and in any order:
`ReadColumn`, `ReadKey`, `ReadViewColumn`, each with an end and a failure (`FailColumns`
leaves no catalog at all, as `main` sees to; `FailKeys` and `FailView` lose their part).
The catalog's maps are as in the code: `loadUniqueKeys` collects the
columns of a key by the names of its table and constraint, and only `EndKeys` takes the
keys over; the types of a view are collected apart and taken over at its end. From then on
`Insert` and `Delete` change the rows, within what the declarations allow, while
the catalog stays: the lookups `IsNotNull`, `CoversUniqueKey`, `Comparable` and
`NaturalDatatype` are held against the rows of that moment. Values have a number and a
number of decimals, which is what their texts (`Text` of a conversion, `SqlText` of a
cast) depend on.

### Templates

Texts are sequences of characters. `Expand` is `TemplateTermMap::generateRDFTerm`,
`ParseTemplate` and `Projection` are `TemplateUtil`'s and the SQL made with it, `Encoded`
and `PercentDecode` the two directions of the escapes of IRIs. `invertTemplate` is a loop
and one here: `Unsplit` for what it does not take apart, `ReadLiteral`,
`ReadPlaceholder`, `Finish`. `Compare` is what the optimizer asks of two templates:
whether they can ever meet, and whether a join of them may go by their columns. The
exceptions are named: `SplitsOneWay` (no value can hold the delimiter that
follows its placeholder), `Canonical` (an escape that the encoder writes) and `CutOff` (a
brace that is not closed). For IRIs the first is nearly always true, because
reserved characters in a value are escaped; for literals it hardly ever is.

### The SPARQL modules

SparqlLexer has an operator for each kind of token. Characters are runs of letters, so
that a keyword is one; everything that decides between two tokens is there:
a dot that ends a number or a name, `<` as an operator or the start of an IRI, signs,
`a`, comments, `()` and `[]` as tokens of their own.

SparqlParser has an operator for each production function. The parser's state is a
record: place, blank nodes made, base and prefixes, collected triples, and the
value returned last; place 0 is after an error. The functions call each other through
`Read(name, p)`, one recursive operator in place of some forty declarations. The precedence
loops, the split of a signed number after an operand, the expansion of lists and
blank-node brackets into triples, the modes of a triples block (with and without
paths), the arities of functions and the solution modifiers are as in the code.

SparqlPrinter writes terms, paths and expressions, whose text has precedence; the
tree of the query around them is layout.

SparqlGrammar is the reference, and is not made from the parser: it writes a
query from its abstract form by the precedence of the grammar, and says what
triples a list or a bracket stands for (`BlockMeans`). SparqlSyntax composes them:
`Write` spells the lexemes of a query (spaced, with comments, or as tight as can be),
`Disturb` spells them with one lexeme lost, doubled or swapped with the next, `Lex` and
`Parse` read the text, and `PrettyPrint` shows the expression or path that was read, to be
read again. `PrintedIsRead` excludes, by name, what the printer does not show
faithfully (`ExpressionShown`, `PathShown`).

### PathClosure and PropertyPath

PathClosure is the evaluation of `E+`: `Mode` is the choice of the
`TransitiveClosureNode` from which endpoints are bound, `SeedRows`, `Extended` and
`Selected` are the three parts of the recursive CTE that
`renderTransitiveClosure` writes, and `Seed`, `Recurse`, `Select` are how SQL defines
the evaluation of a recursive `UNION`. `Reaches` is the specification, as the
least set closed under the step. The comment of `RelNode.h` says that the
endpoints of `BothBound` are unequal; `<a> p+ <a>` reaches it with equal ones,
and the model includes that and finds the right answer.

PropertyPath is `translatePath` for all operators, recursively, over bags:
`ZeroLengthPath`, `WithZeroLength`, `OneOrMore`, `NegatedSet` and `Translated` have
the cases of the functions of these names, and internal variables are named by
their place in the path. `Count` is SPARQL's section 18.4: how often a pair of
terms is a solution. `EndpointsKnown` leaves out what that section does not settle
in the same way for every reader: a path of length zero nested in another path and
anchored at a term that the graph does not hold (`(p?)+` there loses the solution
of length zero).

### Relations, Optimizer and PatternFold

Relations is the intermediate representation: nodes with their schemas (`nonNull`,
the kind of the terms and the expression behind every column) and `RowsOf`, the
bag of rows that the SQL written for a node yields from a set of tables:
select-project-join blocks over table rows with duplicates and NULL, term maps as
columns, templates and constants, null-safe and plain join keys, `COALESCE`,
anti-joins by `NOT EXISTS`, `UNION` by name with padding, three-valued conditions,
correlated `EXISTS`, and `TRY_CAST`, which gives NULL for what is no number. What
the SQL of a node really has as columns (`Produced`) is kept apart from what its
schema names, and `Renderable` says whether every column that is named exists.

Optimizer is `optimize`: an operator for each pass, recursive as the code is, and
`Passes`, their fixed order. The passes read the tree, the kinds and templates of
the mapping, constant columns of views (`Fixed`) and the keys of a catalog,
never the tables. Two of them rely on the data: dropping DISTINCT on the keys, and
`EliminateSelfJoins` on a documented assumption (`doc/api.md:470`), that a subject has
one row in its table. The arithmetic on unsigned sizes in the latter is modelled by
its outcome (`Failure`). Conditions that the code recognises by their text are
recognised here by their form.

PatternFold puts them together. `Fold` is one turn of the loop of `fold` and
`Extended` what it does for each kind of element, with the helpers `BuildKeys`,
`InnerJoin`, `LeftOuterJoin`, `AntiJoin`, `UnionAll`, `Bind`, `InlineData`, `Subselect`
as in `PatternFolder.cpp` and `Translator.cpp`, including their shortcuts for a single
row; sub-selects and the bodies of `EXISTS` are optimized when they are met, as in
the code. `AtomicPattern` makes the arms of a triple pattern with what the optimizer
may know of them. `Optimize` is one pass; `Execute` then runs the tree over any small
database, chosen only now, and `Fail` is a translation that throws. The
reference, `Solutions`, is SPARQL's algebra over partial mappings, which knows neither
NULL nor schemas, on `Graph(database)`, the triples that the mapping makes. A second
one is the tree itself: `OptimizerPreserves` compares what the finished tree yields
with what it would have yielded without the passes. Deviations are named and each
property excludes only the ones it must:

- `Overstates`: a sub-select promises by name a variable that may be unbound
  (`OptionalSelected` in the findings), and `BIND` promises its variable when its inputs
  are bound although the cast in it may fail (`PatternFolder.cpp:370`);
- `MinusMayBeDisjoint`: `MinusOfOptional` in the findings;
- `FilterTooEarly`: a filter is applied to what its group has built so far; SPARQL
  applies it to the whole group. `doc/api.md:396` documents this, and it matters
  only for a variable that may be unbound there and is bound by a later element;
- `InScope`: `bound(?v)` where no `?v` is in scope is refused
  (`ExpressionTranslator.cpp:412`), other uses become SQL over a missing column;
- `SubjectsHaveOneRow`: the assumption above, for the tables that two patterns with
  the same subject variable read.

Not expressible in the model's queries: variables and paths in the place of a
predicate (see TriplePattern and PropertyPath), a `BIND` over a variable that is in scope
already, functions whose value changes from call to call. The bodies of `EXISTS` are
patterns for which substitution and compatibility coincide. Terms are compared by
their text as SQL does, join conditions by value (`Equals`), and the columns they join have one text for
each value (TriplePattern is about the others); in the instances no IRI has the text of a literal, so that
the comparison of tags in merged blocks has nothing to decide. Guards against NULL
are always there, while the code drops those on columns that a catalog calls NOT NULL.

## The runs

Every `.cfg` names every constant. One of the runs ends before the state space is
exhausted with the expected violation; see [findings](#findings).

| Run | Instance | States | What it shows |
|---|---|---|---|
| `process_database` | four mappings over two tables: classes, several predicates, objects and graphs, null terms anywhere, joins with and without conditions, invalid maps, unresolved parents, a self-join on a constant; databases with up to 2 rows in each table, missing results and errors; any write may fail | 54 655 | no node, row or cursor of one loop turn is used in another; the buffer of the subject is intact; only denoted quads are written; at any moment all earlier rows are complete and later ones untouched; the conversion implements RdfDump and ends |
| `self_reference` | a mapping as `tests/sourceR2RML/sparql2sql_path_cycle.ttl` | | the subject's buffer is overwritten |
| `mapping_build` | four documents of about twelve statements, in every order, one statement lost anywhere | 174 049 | the mapping is what was written; gaps are reported; references find their place |
| `yarrrml` | 117 documents: five sources, four subjects and five lists of entries in every combination; lists of predicates and objects, shortcuts and long forms, tags at every place, joins with good and broken conditions and dangling parents, mappings that are no maps | 1 898 | the mapping that comes out of statements, nodes and builder is the one the document means; no node serves two purposes; what is lost is reported |
| `command_line` | six lists of files with up to two of thirteen options at any places; up to 2 rows; any failure | 205 157 | arguments mean the same in any order; the old output is emptied only when nothing else can fail; the exit status is true |
| `type_catalog` | two databases: a composite key beside a plain one of the same name, nullable keys, other cases, views with and without a semicolon, every type; all failures and orders of the sweeps; up to 2 rows of each table come and go | 6 222 | whatever the translator leaves out on the word of the catalog was vacuous; joins without a cast join the same rows; conversion and SQL show the same text |
| `templates` | thirteen templates in pairs and fourteen terms of up to four characters, IRIs and literals, two columns | 1 692 | both readers agree; taking a term apart finds its rows and no others; pruning and keys on columns are right, but for the named exceptions |
| `triple_pattern` | 70 patterns with terms, shared variables and excluded predicates, and all terms; three mappings, one with objects in two languages, typed by the mapping, by the catalog and not at all, and an IRI, a literal and a blank node of one text; up to 2 rows in each table, added and removed between runs of the SQL; joins of texts with texts and with numbers, the latter sometimes refused | 121 971 | arms agree with the conversion; the terms cover the graph; tags and annotations are true of the terms |
| `path_closure` | all 512 step relations on three terms, all 25 pairs of endpoints | 56 072 | soundness at every moment, exactness at the end, termination |
| `property_path` | 13 paths that nest every operator, graphs of up to 2 triples on three terms and two predicates, all pairs of endpoints | 111 800 | solutions and multiplicities of SPARQL |
| `pattern_fold` | 80 queries over two mappings: 31 that put each element before, after and inside others over plain columns, 49 that give each pass of the optimizer something to do and something to leave alone over templates, parents, constant columns and several candidates; with and without a catalog and DISTINCT; databases of up to 3 rows | 74 972 | the bag of solutions of SPARQL; the passes change no answer; every promise of non-null is kept at every node of the finished tree |
| `sparql_syntax` | every operator of expressions and of paths below every other on either side, lists and brackets in each other, queries of every form that reach every clause; three spellings; one lexeme lost, doubled or swapped at any place | 20 297 | the query meant is read; no name of an accepted text is lost; what is printed is read as what it was |

Why the bounds are enough. In the conversion, an effect between rows or between
loop turns needs two of them, and the pairs are there: two rows of the child,
two matching rows of the parent (duplicates included), two predicates, objects
and graphs in one predicate-object map, and five triples maps of which some are
skipped. The proofs remove these bounds for all but `Terminates`. In a path, three terms give a cycle with a tail
and an intermediate node unlike both ends; the proofs remove the bound for `E+`. In a pattern,
a row is lost or doubled by at most two matches of one variable, or by two equal
rows of one table, and a pass of the optimizer goes wrong on a single join partner; three
rows give each of these; for one pattern the proofs remove the bound. A command line goes wrong when a value looks like an option or an
option stands between files, which needs one or two options; the proofs remove the
bounds. A key claim needs two rows to be false, and a key of two
columns to be half read; the proofs remove both, and the choice of tables, views and types. A template is taken apart wrongly when
one value holds the delimiter of the next, which two placeholders and terms of up to
four characters give. Precedence is a matter of two operators, associativity of three
operands. Changing a single guard or case of a pass (some twenty were
tried) makes the run of PatternFold fail, except where two forms of the tree are equivalent. The
samples of mappings, documents, paths and queries are finite choices, not exhaustive: each construct of
the code occurs in at least two contexts. `MaxRows` and `MaxParentRows` bound the
tables, `MaxFacts` and `MaxCopies` the database of a query, `MaxLost` the statements
lost to syntax errors, `Int32Max` stands for 2^31 - 1, `Unit` and `Grain` for the scale of
numbers and the six decimals of their text.

Deadlock is checked where the system runs on (`triple_pattern`, `type_catalog`); a conversion, a parse,
a program or a query that has ended has no next step, and the configurations say so.

Fairness. `Terminates` of ProcessDatabase assumes `WF_vars(Next)`: one thread
runs the conversion, and nothing it calls waits for another one; a step
that is possible is taken. No fairness is needed between the ways of a step (a
write may fail or not). `Terminates` of PathClosure assumes the same of the
database, which does not suspend a query it evaluates. What these properties
show is that no loop of the code is re-entered without progress: a cursor that
is not advanced or a `UNION ALL` violates them.

## Findings

Places where a document or comment of the repository says one thing and the code
does another. The first is the run `self_reference`; the others are configurations
kept beside the runs, which end in the violation of a property that states the document's
words (each is preceded by the words). Where a configuration lists several
properties, TLC stops at the first that is violated; leave one in to see it
(in `MCPatternFoldOpen.cfg`, also the queries that its comment names).

| Configuration | Property | The code does | The repository says |
|---|---|---|---|
| `MCCycle` (MCProcessDatabase) | `SubjectIntact` | a triples map whose referencing object map has the same triples map as parent rewrites the buffer of the subject node it is still writing (`TemplateTermMap.cpp:30`): subjects of these triples and of the following ones of the row are those of the parent row, or no term | `TemplateTermMap.h:32` "keeps buf pointer in returned SerdNode valid" |
| `MCZeroOrOne` (MCPropertyPath) | `CardinalitiesMatch` | `(p/q)?` gives a solution once for every route, because the deduplicating union includes the columns of internal variables (`PropertyPathTranslator.cpp:96`) | 71-73 "a solution appears once however many ways it is reached" |
| `MCPatternFoldOpen`, `OptionalSelected` | `PromisesKept` | a variable that a sub-select projects by name is promised non-null even if OPTIONAL binds it (`Translator.cpp:512`), so joins on it lose rows | `doc/api.md:959` "always conservatively marked" optional |
| `MCPatternFoldOpen`, `MinusOfOptional` | `MinusMatches` | MINUS removes solutions with which the other side shares no bound variable (`PatternFolder.cpp:250`) | 251-252 "MINUS with zero shared variables can never remove anything" |
| `MCPatternFoldOpen`, `DroppedArm` | `OptimizerPreserves` | a union that loses an arm to the optimizer loses the arm's variables, which a filter or a projection above may still name (`Optimizer.cpp:1428`) | 1510-1512 "the schema must be preserved exactly" |
| `MCPatternFoldOpen`, `Sports` | `OptimizerPreserves` | self-join elimination takes two reads of a one-to-many reference for one; with three of them the translation throws `std::length_error` (`Optimizer.cpp:463`) | `Optimizer.h:35` "Semantics-preserving" |
| `MCTypeCatalogOpen` | `ClaimsAreDeclared` | tables are kept by their name without the schema: NOT NULL and keys of a table in another schema count (`TypeCatalogLoader.cpp:104`) | `TypeCatalog.h:48` "True iff the DDL declares this column NOT NULL" |
| | `ComparableAsText` | DECIMAL(4,1) and DECIMAL(4,2) are one category; 1.5 and 1.50 are equal as numbers, not as text (`TypeCatalog.cpp:134`) | `doc/api.md:570` "projected values and result semantics are identical either way" |
| | `NaturalDatatypesAgree` | a conversion writes a plain literal where a query gives xsd:integer (`DuckDBConnection.cpp:25`) | `SQLValue.h:30` "backends with richer type information ... should override this" |
| `MCTemplatesOpen` | `KeysAreAlwaysTerms` | values that hold the delimiter give one text from different columns; the join on the columns does not find them (`NativeKey.cpp:33`) | `doc/api.md:551` "the text splits unambiguously" |
| | `PruningIsAlwaysSound` | templates cut off at an unclosed brace differ as texts and yield the same terms (`TemplateUtil.cpp:241`) | `TemplateUtil.h:99` "never drop a branch that could actually have matched" |
| | `NeverIsNever` | a value that holds the delimiter is split too early, and the term is not found (`TemplateUtil.cpp:173`) | `TemplateUtil.h:53` "cannot possibly have been produced by this template" |
| `MCYarrrmlOpen` | `LossesAreReported` | `graphs` of an entry, a join condition that is not a map and a predicate that is not a scalar are ignored without a warning (`YARRRMLParser.cpp:544`) | `README.md:200` "reported as non-fatal warnings" |
| | `TagsAreKept` | a language or datatype of a constant or of a template is lost (`R2RMLParser.cpp:550`) | `README.md:198` "pairs are supported" |
| | `BracesAreText` | the backslash put before a brace is known to no reader of templates (`YARRRMLParser.cpp:233`) | 231-232 "so they cannot be mistaken for rr:template placeholders" |
| | `SuffixIsNoText` | `~iri` after the class of an `a` entry stays in its IRI (`YARRRMLParser.cpp:623`) | `README.md:198` "`~iri` forces an IRI" |
| `MCCommandLineOpen` | `ZeroMeansWritten` | with a disk that is full at the end the file is incomplete and the exit status 0 (`main.cpp:346`) | the message "Written to" (351) |
| | `NoFaultUnseen` | errors that lenient parsing leaves in a mapping are printed with `-P` only (`main.cpp:282`) | `R2RMLParser.cpp:252` syntax errors "must not vanish silently" |
| | `CaseIsIrrelevant` | a column that the mapping names in lower case is always NULL (`DuckDBConnection.cpp:182`) | `TypeCatalog.cpp:69` "SQL identifiers are case-insensitive" |
| | `EveryVariableShown` | ?x and ?X share a cell (`DuckDBConnection.cpp:182`) | `TranslatedPattern.h:310` "case-sensitivity ... never an issue" |
| `MCTriplePatternOpen` | `AnswersMatchGraph` | a reference is joined on the columns as they are (`TriplePatternTranslator.cpp:578`), while the conversion compares texts (`ReferencingObjectMap.cpp:72`): the text `01` and the number 1, DECIMAL 1.5 and 1.50, INTEGER 1 and DOUBLE 1.000000 are equal in one and not in the other, and two DOUBLE values that differ after six decimals the other way round; or the query fails on types that cannot be compared. SQL's comparison is the one of R2RML; the conversion loses triples that a query finds | `TriplePatternTranslator.h:53` a candidate is one "that could produce a matching triple", and `doc/api.md:567` joins of types that are not comparable use "the always-correct VARCHAR-cast comparison" |
| | `EqualityIsOfTerms` | of two columns whose rows have languages, but different ones, only the text is compared: `"x"@en` equals `"x"@fr`, unless some contributor of either column has no language (`ExpressionTranslator.cpp:149`) | `TagSql.h:98` "a language-tagged pair additionally requires identical tags" |
| | `EitherTagDescribes` | one variable at two positions is joined by text alone, so that an IRI meets a literal or a blank node of the same text, and the row has the tag of the first (`TriplePatternTranslator.cpp:380`) | `RelNode.h:84` "either contributor's tag describes the row" |

Noted on the way, without a configuration:

- An object map with a template and a language or datatype but no term type is annotated as a
  literal (`TermMapSql.cpp:94-99`), while the conversion writes an IRI; no sample has one.
- `TermInfo.h:140` calls a default annotation absorbing; meeting it with another one sets
  `degraded`, which a default does not have. Nothing depends on the difference.

- The terms over which a path of length zero ranges lack the subjects of a triples
  map without classes and predicate-object maps, which exists to be a parent
  (`TriplePatternTranslator.cpp:682`; the comment at 700-702 says they are
  contributed by that map's own arm), and a referencing object map without join
  conditions has no arm in the translation (line 556), while the conversion pairs it
  with every parent row. The samples of `triple_pattern` contain neither.
- A constant subject whose node says `rr:termType rr:BlankNode` gets that type
  (`R2RMLParser.cpp:655`). The conversion writes the IRI all the same, while the translator annotates a
  blank node (`TermMapSql.cpp:81`). No sample has one.
- After an unclosed brace the comment at `TemplateTermMap.cpp:37` says "treat rest as literal"; both
  readers of templates drop the rest.
- Renaming aliases replaces `t2.` in the text of conditions (`Optimizer.cpp:412`), also in
  a string literal such as `'http://host2.org/'`.
- A `BIND` of `RAND()` or `UUID()` moves under the DISTINCT of its block and is written
  again wherever its variable is read (`Optimizer.cpp:201-245`).
- Null-safe keys survive a union's loss of the arm that made them necessary; the join
  is right all the same, only slower.
- Blank nodes that the SPARQL parser makes are called `__gen0` and so on; a user who
  writes `_:__gen0` shares it (`TriplePatternTranslator.cpp:448` makes both
  `_bnode___gen0`).
- A backslash at the end of the input within a string raises `std::out_of_range`
  instead of `ParseError`; an escaped dot at the end of a local name is stripped; `1.e5`
  is no double; `LIMIT -5`, `()` or `[]` alone in a group, and any primary after FILTER are
  accepted, `CONSTRUCT FROM ... WHERE` and `!()` are not; a BASE without a path resolves
  `foo` to `http://foo`, and one without any slash is kept whole before `foo`
  (`Parser.cpp:76`), so that `urn:x` gives `urn:xfoo`.
- The printer writes strings without escapes, EXISTS within an expression without its
  pattern, unary operators and IN without the parentheses that they need, and paths
  without any, as a test of the repository expects.
- An unreadable mapping file is an empty mapping (`R2RMLParser.cpp:879`;
  `tests/test_r2rml.cpp:216` expects it); the optional path of two bound endpoints keeps the
  duplicates of its inner path (`OtherCardinalitiesMatch` says so by its second conjunct).

## The proofs

**ProcessDatabaseProofs** assumes of the constants only `InputsAssumption`: mappings
are sequences of well-formed triples maps (what MappingBuild's type invariant
shows of the parser) and a query returns a sequence of rows, an error or nothing.
Tables, rows, loops and joins may be of any size.

- `TypeCorrect` and `NodesCurrent`. Neither invariant is inductive alone: that a
  cursor is in range needs that the result set is the one of the current map,
  and that the nodes are current needs that the cursors select something. Their
  conjunction `IInv` is. `NextIInv` has a lemma for each action; lemmas about the
  loops (`MapFacts`, `PomLengths`, `ConcatFacts`) say once what the assumption gives.
- `SubjectStaysIntact`, under the hypothesis that no mapping has a triples map that
  refers to itself while its subject lives in a buffer (`NoSelfReference`, stated
  as an assumption of the theorem; the run `self_reference` shows that it cannot be
  dropped). With `IInv`, only two actions write a buffer: starting a row, which makes
  the subject anew, and a parent row, whose map is another one.
- `OnlyDenotedQuads`, under the same hypothesis: a write happens with all nodes current
  and the subject intact, so the quad is one of those that `PairQuads` or `ClassQuads`
  collects; that the graph is one of `GraphsOf` is the part of
  `NodesAreCurrent` about the graph maps that were passed over.

Its second half proves the other direction, that nothing is left out, and
with it `PrefixWritten` (at any moment all earlier rows are complete and later ones
untouched) and `DumpImplemented` (the initial states are those of RdfDump, each step is
one of its steps or a stutter), both under `NoSelfReference`. That the output of a
finished row is complete is not inductive: it rests on every class, pair and joined row
having been written, and that on every graph. The invariant `PInv` says it for each loop:
`MapsWritten`, `RowsWritten`, `ClassesWritten`, `PomsWritten`, `PredicatesWritten`,
`ObjectsWritten`, `ParentsWritten` and `GraphsWritten` say of the elements the loop is
`Through` with that their quads are in the output, `RowsJoined` that no matching parent row
was passed over, `ObjectIsCurrent` whose object is being written. Inner claims are made only
while control is inside the loop. There is a lemma for each action; the action that
ends a loop hands its claim to the loop around it (`TripleIsWritten`, `JoinIsWritten`,
`PomIsWritten`, `RowIsWritten`, `MapIsFinished`).

**PathClosureProofs** assumes nothing of the sets of terms and variables.
`Invariance` proves the inductive invariant `IInv`: besides `TypeOK` and
`RowsAreReached` it needs `OnlyDeltaIsOpen`, which says that rows outside the
working table have been extended, and what the table is at start and end.
`TypeCorrect`, `Sound` and `Exact` follow. `Exact` is the argument of a least fixed
point: every row is reached, and the finished table is closed under a hop, so it is
one of the sets that the definition of `Reaches` quantifies over. Infinite sets of
terms are included: then the query may not end, but if it does it is right.

**CommandLineProofs** assumes that arguments are strings and the bound on rows a natural
number. `ExitCodeTells` compares lines printed with rows of the result at the very end
of the program, so it needs to know at every phase what has been settled and done by then:
`Settled` says which options were given and what was found in order when a phase is
reached, `Done` that nothing is printed or written before its phase and that in the
printing loop rows printed and rows left make up the result. `Types` adds that
the lines printed are finite sequences, over which `OneLineMore` counts. Their conjunction with
`ExitCodeTells` is inductive, and `OutputIsTouchedLast` follows from it step by step:
only opening, flushing and closing change the file, in phases that `Settled` describes.

`OptionsAreMeant` (`OptionsMeant`) has an invariant of its own, `OInv`: the options held are what
the arguments before the next one mean, and the next one is no value. Which arguments are values
is defined by recursion over the command line (`IsValue`); that this function exists is shown by
the least argument for which it would not (`MarksExist`), and with it the step from one argument
to the next (`ListedNext` for the files, `LatestNext` for the last value of an option).

**TypeCatalogProofs** assumes `CasesAssumption`: finitely many tables, whose columns
differ also when case is ignored, and keys on a table's own columns, which DuckDB
enforces. The inductive invariant says that the rows obey the declarations (`Obeyed`)
and that the catalog holds only what is declared, and a key with all its columns (`Read`;
this is why a key may not enter the catalog row by row). `OneTable` shows that a
name which only one schema has is found for one table, `KeyIsWhole` that the columns
collected under a constraint include all columns of one declared key. From these
`ClaimsAreTrue` follows for tables whose name is in one schema only, the restriction that
`ClaimsAreDeclared` shows to be necessary.

What the catalog says of types needs a second invariant, `TInv`: the types it knows are those of
a declared column or of a view that was described (`TypesDeclared`), a sweep that is under way
has collected only what its query returns (`SweepAtHand`), and the rows stored are of the declared
types (`RowsStored`). `TypeCorrect` (`TypeOK`), `TextsAreEqual` (`TextsAgree`) and
`ComparableAreLexical` (`ComparableIsLexical`) follow. They assume `RowsAssumption` besides, which
is DuckDB's part: one table of a name in each schema, values of the declared types, INTEGERs of 32
bits, and a query that selects the same however its letters are written (the catalog's keys fold
case).

**MappingBuildProofs** assumes `DocumentsAssumption` and that the empty text is no term type. The
inductive invariant `IInv` has four parts. `StoreKept`: what a subject and predicate have in the store
is a sequence without repetitions of what the statements read gave them, and each statement read
is there or has its syntax error. `Progress`: statements are read before any map is built, and
all names are passed before references are resolved. `MapsBuilt`: each triples map is what its name says *in
the store*, with parents once they are resolved; it is inductive because the store no longer changes
when maps are built, which `SameQueries` and its like carry from query to query. `FaultsNoted`:
the references are those of the maps, and what is wrong with a map is among the errors.
`TypeCorrect` (`TypeOK`) then takes a map apart to its objects, where `OneReference` shows that a
place awaits one parent, and `GapsHaveErrors` (`GapsAreReported`) counts object maps against nodes: a
choice from a sequence keeps order and number (`Places`, `ChosenFacts`), so nothing is listed twice
or left out. `TypeCorrect` is also what ProcessDatabaseProofs assumes of its mappings.

`WrittenIsReturned` states `ReturnsWhatIsWritten` for documents that are `Proper`. If no statement
was lost, the store says what the document says (`TextsAreSaid`), whatever the order; from there
the argument goes up as the parser does: strategy and type of a node (`StrategyIs`, `TypeIs`), its term
map with its tags (`TermMapSaid`, `RegularSaid`), lists of term maps (`TermMapsSaid`), references with
their parents and joins (`ParentSaid`, `JoinsSaid`), objects, predicate-object maps, the subject
map (`SubjectSaid`), the triples map (`MapSaid`), the names (`NamesSaid`).

**TriplePatternProofs** begins with annotations, and assumes of them only that an absent datatype or language is no text
(`NoTagAssumption`). `Shape` says what every annotation that the translator makes obeys, and what
`Meet` keeps (`MeetIsAnnotation`): nothing but literals has a datatype or language, a
language comes with rdf:langString and `maybeTagged`, and without disagreement nothing is
only perhaps tagged. `MeetIsSemilattice` compares annotations field by field; it needs `Shape`, for
an unknown kind with a datatype would not meet to itself. `MeetCovers` is the step from the arms to
their union: a tag that a row may carry under one arm it may carry under the meet, because
`Meet` claims less than each (`MeetDescribes`) and a meet that determines the term is one of
equals (`DeterminedMeet`), which is what `degraded` is for. `RoundTrip` is the
promise of `TermInfo.h:120`. `MeetColumnsCovers` carries the step over to any number of columns:
the recursive function behind the fold exists (`FoldExists`) and covers what it folds
(`FoldCovers`), both shown number by number (`NumberByNumber`, from the well-foundedness
of the naturals). From `Covers`, `FoldsAgree`, `SameTermAgrees` and
`EqualityAgrees` show that what is settled when the SQL is made is what the tags say when
it runs, the last under the restriction that `EqualityIsOfTerms` shows to be necessary.

The rest is about both readers of a mapping at once. `AnswersAreOfTheGraph`,
`TermsAreOfTheGraph` and `TermsAreAnnotated` state `AnswersMatchGraph`, `TermsCoverGraph` and
`TermsAsAnnotated` for all mappings, patterns and tables that satisfy named hypotheses. What they
exclude is known and listed under [findings](#findings): `Translatable`, that every triples map is
valid (the program refuses others, `main.cpp:292`), no object map is without a
value and no reference without a join condition; `JoinsByText`, that values in columns of join conditions
are equal in SQL exactly if their texts are; `ParentsAreNodes`, that a parent has a class or a
predicate-object map; `Declared`, that only objects are literals and that one with a language or a
datatype is written as one; `CatalogIsShown`, that the catalog and the connection agree on natural
datatypes; `TablesAnswer`, that no table fails to be read. `TermsAreOfTheGraph` needs neither
`JoinsByText`, `Declared` nor `CatalogIsShown`, for the universe of terms joins nothing. `IsPattern` says what a pattern is.
The invariant is short, for the arms are fixed and the tables change under them:
arms and answers are what the translator and SQL make of the mapping, the pattern and the tables of
that moment. The argument is in the lemmas. `PositionDecided` says of one position that what
inversion decides when the SQL is made and the guard that stays in the SQL together are the match of
the term that the row makes; `SelectedMatches` puts three positions and the join guard together. On
the other side, `TriplesByRows` takes the denotation apart by triples maps and rows, and
`ClassesAgree`, `RegularAgree`, `ReferencingAgree` compare an arm with the quads of one class, one
pair and one reference, all with the pairs of rows that `getJoinedRows` finds (`Paired`).
`GraphIsRead` sums this up: the rows so read for the arms are the triples of the graph.
That the SQL joins the same pairs is `JoinsAgree`, the one place where `JoinsByText` is
needed; without it the theorem is false. For
annotations, `NodeSpeaks` and `ObjectDescribed` compare what `annotate` says of a term map with the
node that the conversion makes of it, `CellsAreTrue` does so for each cell of each arm, and the
meet goes first over the positions of a variable (`MetByPositions`), then over the arms
(`MetByArms`), by `MeetColumnsCovers`; that there are finitely many arms is part of it.

**TemplatesProofs** assumes that texts are finite sequences of characters (`TextsAssumption`), that
templates name columns of the rows (`ColumnsAssumption`) and that the codes of the encoder are read
back by the decoder (`CodesAssumption`). Templates, values and given terms may be of any length. The
scans of the model are recursive functions: `LeastNumber`, `Upwards` and `Downwards` are the
inductions, and each scan is first shown to exist and to obey its equations (`ConcatIsUpTo`,
`DecodingIsScan`, `ExpandIsScan`, `ParseIsScan`).

- `OneReading`. From any place of a template on, the parts that the conversion still has to write and
  the segments that are still to be read make the same text (`Same`, `SameScans`), with the text before
  that place as what the parser has in hand; there is a lemma for each case of the scans.
- `InversionRight`. Neither half of `InversionIsRight` is inductive: that a row agrees with the spans
  found says nothing of the next span. `IInv` adds what was consumed: `KeepsAnswers`, that for a row that
  makes the given term it is what the row put at the front, and that the loop has not given up;
  `AddsNoAnswers`, that a row that agrees so far makes what was consumed. The step that takes a
  placeholder's span (`StepTake`) rests on `FirstPlace`: an encoded value has no reserved character, so
  the first place where the next literal stands is the place where the row put it, even if it could also
  begin inside the value. `EncodedValues` says that decoding undoes encoding.
- `PruningSound`. A text that begins with two literals makes one the beginning of the other
  (`StartsAreCompatible`, `EndsAreCompatible`); a template without placeholders stands for itself unless it
  is cut off at a brace (`LiteralStandsForItself`).
- `KeysRight`. Of two texts with the same front, the next span is the same if the delimiter after it is
  unmistakable (`SplitOnce`); so equal texts have equal values at every placeholder (`SameTextSameValues`).

**YarrrmlProofs** assumes `DocumentsAssumption` and, as the hypothesis `NamesApart` of its theorem,
what `BlankNodeMinter` and `expandNode` give: numbers are written differently, and no URI begins
with `_:` (`to_string` of the counter is injective below 2^32 nodes). `OneNodeEach` states
`NodesApart`, which the run `yarrrml` checks. It is not inductive: that nothing is
stored twice yet does not keep the next mapping from minting a number again. `Inv` adds `Kept`, that
whatever is stored is about a node below the counter or a mapping whose turn is over. What is added is
described by `Since`: the statements of one part of a translation are about nodes minted since it
began, each with one value of a property that may have only one, even while the nodes of a
predicate, of its objects and of the maps that join them are under construction at once. One lemma
for each function that writes statements shows that it keeps `Since` (`EmitValueKeeps` to
`EmitSubjectMapKeeps`); those with loops go by induction over the places of a list
(`ConditionsUpTo`, `ObjectsUpTo`, `PredicatesUpTo`). `CollectedSingle` and `CollectedKept` then follow the
statements into the store, and `LinkedSays` sets the links from a mapping's name apart from those of nodes.

All are checked by `tlapm` from nothing, with its SMT backend, Zenon and, for the
last step of each theorem, LS4.

## What is only model-checked

- Liveness (`Terminates` of both modules): fairness and ENABLED are beyond the
  prover.
- `TranslationIsFaithful` and `LossesAreReported` of Yarrrml: they compare maps with a reference that
  filters the lists of a document, and SelectSeq and FlattenSeq are opaque to the provers.
- PropertyPath, Relations, Optimizer, PatternFold and the SPARQL
  modules: trees, paths and queries are recursive data, evaluated by RECURSIVE
  operators or folds. Induction over numbers can be had, by the least counterexample in
  a set of naturals; induction over such data cannot, and recursive operators are closed to
  the SMT backend.
- Documents that are not `Proper`: TLC's samples are proper too, and ReturnsWhatIsWritten does not hold
  for all others (of two logical tables the first that arrives may be of no kind).

## What is not modelled

- The annotation of expressions (`TermInference.cpp`), annotations and tags above a triple
  pattern (joins, BIND, sub-selects, the optimizer), ordering by tags, and tag demand: which
  tag columns are rendered. Grouping, HAVING, ORDER BY, LIMIT, aggregates,
  ASK, arithmetic and string functions in translation; the order of CTEs. (The SPARQL
  modules read and print all of these.)
- The benchmark driver: a tool that measures, not part of the program.
- Characters outside Templates and the SPARQL lexer: layout of SQL and Turtle, the
  base URI and prefixes of Turtle. In the lexer, codepoint escapes, escapes in local names, the
  quote `'`, language subtags, and the positions in messages. Of the seven aggregates three
  are read (COUNT, SUM and GROUP_CONCAT); the other four share the code of SUM.
- What the printer draws around terms, paths and expressions.
- `detectConstantSelectColumns`, which reads the text of a view.
- Ownership: moves of `R2RMLMapping` and of the Serd environment between collector
  and mapping.
- What DuckDB, Serd and yaml-cpp do, beyond the outcomes of their calls.

## The plan

Done, in this order: the conversion with its object model and the abstract dump;
its invariants proved; the closure with its proofs; triple patterns against
the conversion; property paths; the parser; the intermediate representation,
group patterns and the optimizer; the catalog and its proof; templates; YARRRML on top of
the builder; the command line and its proofs; the SPARQL front end; annotations and tags up to the triple
pattern, with their proofs.

Next, the most valuable first:

1. **TagDemand.** Annotations and tags in the trees of Relations, and the demand for tag
   columns, against the rows of a tree with tags.
2. **Grouping** with HAVING and ORDER BY on top of PatternFold.
3. **The whole program**: CommandLine with the outcomes of ProcessDatabase, so that
   "every row" becomes "the denoted dataset".

Proofs done: the conversion with its refinement, the closure, the catalog, the command line,
annotations, triple patterns against the conversion, the parser of R2RML, templates, the nodes of YARRRML.

Next: that the translation of YARRRML is faithful for documents of any size. It needs the choices
from lists restated by their places, as in MappingBuildProofs, and then the proof of
`ReturnsWhatIsWritten` for the statements of `Emit`.

## Running the checks

In this directory, with `tlc` and `tlapm` on the path:

    tlc -workers 2 -config MCProcessDatabase.cfg MCProcessDatabase
    tlapm ProcessDatabaseProofs.tla

`PROJECT.json` lists for each run its module, configuration, properties and expected
outcome, for each property a mutant of the code that breaks it (the variants are
defined beside the originals, commented as such), and for each definition the lines
it models.
