---------------------------- MODULE MCCommandLine ----------------------------
(***************************************************************************)
(* Command lines of up to four files and two groups of options, in every   *)
(* order.                                                                  *)
(***************************************************************************)
EXTENDS CommandLine, SequencesExt

Groups == { << "-P" >>, << "-y" >>, << "--pretty" >>, << "-Q", "rq" >>, << "-T", "rq" >>, << "-T", "-P" >>,
            << "--dialect", "duckdb" >>, << "--dialect", "oracle" >>, << "-f", "turtle" >>, << "-f", "rdfxml" >>,
            << "-f" >>, << "-h" >>, << "-x" >> }

Files == { << >>, << << "ttl" >> >>, << << "ttl" >>, << "db" >> >>, << << "yml" >>, << "db" >>, << "out" >> >>,
           << << "ttl" >>, << "db" >>, << "out" >> >>, << << "out" >>, << "db" >>, << "ttl" >> >>,
           << << "yml" >>, << "db" >>, << "out" >>, << "out" >> >> }

Orders(files, options) ==
  UNION { { InsertAt(InsertAt(files, i, a), j, b) : i \in 1 .. Len(files) + 1, j \in 1 .. Len(files) + 2 }
            : a \in options, b \in options }
  \cup { InsertAt(files, i, a) : i \in 1 .. Len(files) + 1, a \in options } \cup {files}

MCInvocations  == { FlattenSeq(o) : o \in UNION { Orders(f, Groups) : f \in Files } }
Conversions    == { << "ttl", "db", "out" >>, << "-P", "yml", "db", "out" >> }
Queries        == { << "-T", "rq", "ttl", "db" >> }

MCResults == { {"id"}, {"ID", "NAME"} }
OpenInvocations == Conversions \cup Queries
OpenResults     == { {"id"}, {"ID"}, {"v_x", "v_y"}, {"v_x", "v_X"} }

MCUpper == [c \in {"id", "ID", "NAME", "v_x", "v_X", "v_y"} |->
              CASE c \in {"id", "ID"} -> "ID" [] c = "NAME" -> "NAME"
                [] c \in {"v_x", "v_X"} -> "V_X" [] c = "v_y" -> "V_Y"]
=============================================================================
