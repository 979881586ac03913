----------------------------- MODULE MCJobSetup -----------------------------
(***************************************************************************)
(* Job files for JobSetup at a small word size: one job with every         *)
(* combination of sizes around the limits of size_t and of off_t, one job  *)
(* with every combination of its other fields, and pairs of jobs that      *)
(* share a name or a file.                                                 *)
(***************************************************************************)
EXTENDS JobSetup

\* A sequential job of three blocks and a half on an asynchronous engine.
Job == [name |-> {"a"}, engine |-> {"libaio"}, rw |-> {"read"},
        bs |-> {[n |-> 2, s |-> ""]}, size |-> {[n |-> 7, s |-> ""]},
        iodepth |-> {Number(2)}, direct |-> {FALSE}, rwmixread |-> {},
        filename |-> {"f"}, align |-> {[n |-> 1, s |-> ""]},
        broken |-> FALSE]

Numbers == {0, 1, 3, 4, 16, 31, 32}

\* A float or a Boolean in JSON, a float in CSV.
Inexact == [n |-> 1, exact |-> FALSE]

\* A field that is missing or holds a number.
Field(numbers) == {{}, {Inexact}} \union {{Number(n)} : n \in numbers}

SizeTexts == {Empty} \union
             {t \in [n : Numbers, s : SizeSuffixes \ {"nodigit"}] :
                /\ t.s = "other" => t.n = 1
                /\ t.n = 0 => t.s = ""}

\* None, refused ones, powers of two and another number.
Alignments == {{}} \union
              {{[n |-> a[1], s |-> a[2]]} :
                 a \in {<<0, "">>, <<1, "">>, <<3, "">>, <<1, "k">>, <<1, "m">>,
                        <<1, "g">>, <<1, "other">>}}

MCJobFiles ==
  {<<[Job EXCEPT !.bs = {b}, !.size = {s}, !.align = a, !.rw = {rw}]>> :
     b \in SizeTexts, s \in SizeTexts, rw \in {"read", "randwrite"},
     a \in Alignments}
  \union
  {<<[Job EXCEPT !.rw = rw, !.iodepth = d, !.rwmixread = m, !.engine = e]>> :
     rw \in {{}} \union {{mode} : mode \in RWModes \union {"trim"}},
     d \in Field({-1, 0, 1, 16, 128, 257}),
     m \in Field({-1, 0, 100, 101, 128, 306}),
     e \in {{}, {""}, {"sync"}, {"io_uring"}, {"mmap"}}}
  \union
  {<<[Job EXCEPT !.name = n, !.filename = f, !.broken = x, !.bs = b],
     [Job EXCEPT !.rw = {rw}, !.size = s]>> :
     n \in {{}, {""}, {"a"}, {"b"}}, f \in {{}, {""}, {"f"}}, x \in BOOLEAN,
     b \in {{}, Job.bs}, rw \in {"write", "randrw"},
     s \in {{}} \union {{[n |-> k, s |-> ""]} : k \in {3, 4, 12}}}
  \union
  {<<[Job EXCEPT !.direct = d, !.engine = {e}], [Job EXCEPT !.name = {"b"}]>> :
     d \in {{}, {FALSE}, {TRUE}}, e \in {"libaio", "sync"}}
  \union {<<>>}

\* One job that asks for O_DIRECT and gives its queue depth as a float.
DirectFiles == {<<[Job EXCEPT !.direct = {d}, !.iodepth = {v}]>> :
                  d \in BOOLEAN, v \in {Number(2), Inexact}}

MCOverrides == {{}, {"psync"}}
=============================================================================
