------------------------------ MODULE JobSetup ------------------------------
(***************************************************************************)
(* From a job file to requests: main parses the jobs, applies --direct and *)
(* --engine and validates them; the orchestrator fills the test files and  *)
(* constructs the workers, whose pools and generators trust what was       *)
(* validated; every worker then asks its generator for the next request.   *)
(***************************************************************************)
EXTENDS OffsetGenerator, FiniteSets, FiniteSetsExt

CONSTANTS JobFiles,     \* the job files considered: sequences of texts
          EngineOverrides, DirectOverrides      \* option values, {} or {v}

ASSUME SetupAssumption ==
  /\ \A job_file \in JobFiles :
       /\ Len(job_file) \in Nat /\ DOMAIN job_file = 1 .. Len(job_file)
       /\ \A k \in DOMAIN job_file : IsText(job_file[k])
  /\ \A o \in EngineOverrides : AtMostOne(o) /\ o \subseteq KnownEngines
  /\ \A o \in DirectOverrides : AtMostOne(o) /\ o \subseteq BOOLEAN

VARIABLES format, texts,                \* the job file
          engine_override, direct_override,
          pc,           \* how far main has come
          i,            \* the job it is at
          configs,      \* jobs
          disk,         \* length of every file
          direct_effective,     \* per job: direct_effective_ of its worker
          cursor,       \* per job: sequential_offset_
          request       \* per job: the last request

input == <<format, texts, engine_override, direct_override>>
vars == <<input, pc, i, configs, disk, direct_effective, cursor, request>>

Jobs == DOMAIN texts
Files == {configs[k].filename : k \in DOMAIN configs}
NoRequest == [offset |-> -1, direction |-> "none"]

Init == /\ format \in {"json", "csv"}
        /\ texts \in JobFiles
        /\ engine_override \in EngineOverrides
        /\ direct_override \in DirectOverrides
        /\ pc = "parse" /\ i = 1
        /\ configs = <<>>
        /\ disk = <<>>
        /\ direct_effective = [k \in Jobs |-> FALSE]
        /\ cursor = [k \in Jobs |-> 0]
        /\ request = [k \in Jobs |-> NoRequest]

\* Parse: one row or element of the job file.
ParseRow ==
  /\ pc = "parse" /\ i \in Jobs
  /\ IF ParseThrows(format, texts[i])
     THEN pc' = "refused" /\ UNCHANGED <<i, configs>>
     ELSE /\ configs' = Append(configs, ParseJob(format, texts[i]))
          /\ i' = i + 1
          /\ UNCHANGED pc
  /\ UNCHANGED <<input, disk, direct_effective, cursor, request>>

Overridden(k) == [configs[k] EXCEPT !.direct = OrElse(direct_override, @),
                                    !.engine = OrElse(engine_override, @)]

\* main: the overrides, then ValidateAll.
OverrideAndValidate ==
  /\ pc = "parse" /\ i \notin Jobs
  /\ configs' = [k \in DOMAIN configs |-> Overridden(k)]
  /\ IF ValidateAll(configs')
     THEN /\ pc' = "prepare" /\ i' = 1
          /\ disk' = [f \in Files' |-> 0]
     ELSE pc' = "refused" /\ UNCHANGED <<i, disk>>
  /\ UNCHANGED <<input, direct_effective, cursor, request>>

\* The header of a display: MakeDisplayContext names what all jobs ask for.
Agreed(values) == IF Cardinality(values) = 1 THEN CHOOSE v \in values : TRUE
                  ELSE "mixed"
OnOff(asked) == IF asked THEN "ON" ELSE "OFF"

EngineLabel == OrElse(engine_override,
                      Agreed({configs[k].engine : k \in DOMAIN configs}))
DirectLabel == IF direct_override # {} THEN OnOff(OrElse(direct_override, TRUE))
               ELSE Agreed({OnOff(configs[k].direct) : k \in DOMAIN configs})

\* faulty variant: the file is cut to the job's size
LengthTruncated(config) == config.file_size

\* The length of the job's file after it was filled.
FilledLength(config) == Max({disk[config.filename], config.file_size})

\* CreateAndFill succeeds: a file grows to the job's size, never shrinks.
PrecreateFile ==
  /\ pc = "prepare" /\ i \in Jobs
  /\ ToOff(configs[i].file_size) > 0
  /\ disk' = [disk EXCEPT ![configs[i].filename] = FilledLength(configs[i])]
  /\ i' = i + 1
  /\ UNCHANGED <<input, pc, configs, direct_effective, cursor, request>>

\* It fails for want of space, or, always, for a size above off_t's range,
\* which fallocate refuses as negative.
PrecreateFails ==
  /\ pc = "prepare" /\ i \in Jobs
  /\ pc' = "failed"
  /\ UNCHANGED <<input, i, configs, disk, direct_effective, cursor, request>>

FilesReady == /\ pc = "prepare" /\ i \notin Jobs
              /\ pc' = "construct" /\ i' = 1
              /\ UNCHANGED <<input, configs, disk, direct_effective, cursor,
                             request>>

\* TotalSize, the only arithmetic of a constructor that may still overflow.
PoolOverflows(config) ==
  EffectiveIODepth(config) > SizeMax \div config.block_size

\* The pool and its AlignedBuffer accept their arguments.
PoolConstructs(config) ==
  LET total == (config.block_size * EffectiveIODepth(config)) % SizeMod
  IN  /\ EffectiveIODepth(config) > 0
      /\ ~PoolOverflows(config)
      /\ IsPowerOf2(config.alignment)
      /\ total > 0 /\ total % config.alignment = 0

\* CreateWorkers: one constructor, with its pool, its generators and its
\* engine's Open, where the file system may refuse O_DIRECT.
ConstructWorker ==
  /\ pc = "construct" /\ i \in Jobs
  /\ IF PoolConstructs(configs[i])
     THEN /\ cursor' = [cursor EXCEPT ![i] = 0]
          /\ \E granted \in {FALSE, configs[i].direct} :
               direct_effective' = [direct_effective EXCEPT ![i] = granted]
          /\ i' = i + 1
          /\ UNCHANGED pc
     ELSE pc' = "failed" /\ UNCHANGED <<i, direct_effective, cursor>>
  /\ UNCHANGED <<input, configs, disk, request>>

WorkersReady == /\ pc = "construct" /\ i \notin Jobs
                /\ pc' = "run"
                /\ UNCHANGED <<input, i, configs, disk, direct_effective, cursor,
                               request>>

\* SubmitOne of worker k: the next offset and the next direction.
NextRequest(k) ==
  /\ pc = "run"
  /\ \E d \in Directions(configs[k]) :
       IF configs[k].access_pattern = "sequential"
       THEN /\ request' = [request EXCEPT ![k] =
                             [offset |-> ToOff(cursor[k]), direction |-> d]]
            /\ cursor' = [cursor EXCEPT ![k] =
                            NextSequential(configs[k], @)]
       ELSE \E offset \in RandomOffsets(configs[k]) :
              /\ request' = [request EXCEPT ![k] =
                               [offset |-> ToOff(offset), direction |-> d]]
              /\ UNCHANGED cursor
  /\ UNCHANGED <<input, pc, i, configs, disk, direct_effective>>

Ended == pc \in {"refused", "failed"} /\ UNCHANGED vars

Next == \/ ParseRow \/ OverrideAndValidate \/ PrecreateFile \/ PrecreateFails
        \/ FilesReady \/ ConstructWorker \/ WorkersReady
        \/ \E k \in Jobs : NextRequest(k)
        \/ Ended

Spec == Init /\ [][Next]_vars

-----------------------------------------------------------------------------
\* What a size means, over the integers.
Exact(t) == t.n * Kilo ^ Power[t.s]

SizeWritten(t, units) == t.s \in units /\ Exact(t) <= SizeMax

AlignText(text) ==
  IF text.align = {} \/ (format = "csv" /\ text.align = {Empty})
  THEN Default4k ELSE CHOOSE t \in text.align : TRUE

WellFormed(text) ==
  /\ ~text.broken
  /\ \A field \in {text.name, text.engine, text.rw} : field \notin {{}, {""}}
  /\ text.rw \subseteq RWModes
  /\ \E t \in text.bs : SizeWritten(t, {"", "k", "m"})
  /\ \E t \in text.size : SizeWritten(t, {"", "k", "m", "g"})
  /\ SizeWritten(AlignText(text), {"", "k", "m"})
  /\ \A v \in text.iodepth \union text.rwmixread : IsAnInt(v)

\* The default of README.md:134 for a missing field, and the integer that is
\* written; a JSON number or Boolean that is no int becomes some int.
IntWritten(field, default, value) ==
  \/ field = {} /\ value = default
  \/ \E v \in field : IsAnInt(v) /\ value = v.n
  \/ /\ format = "json" /\ \E v \in field : ~IsAnInt(v)
     /\ value \in Ints

Written(text, c) ==
  /\ c.name \in text.name /\ c.rw_mode \in text.rw
  /\ c.access_pattern = "random"
       <=> text.rw \subseteq {"randread", "randwrite", "randrw"}
  /\ c.block_size \in {Exact(t) : t \in text.bs}
  /\ c.file_size \in {Exact(t) : t \in text.size}
  /\ c.alignment = Exact(AlignText(text))
  /\ IntWritten(text.iodepth, 1, c.iodepth)
  /\ IntWritten(text.rwmixread, 50, c.rwmixread)
  /\ c.filename \in IF text.filename \subseteq {""}
                     THEN {DefaultFile(c.name)}
                     ELSE {GivenFile(f) : f \in text.filename}

Accepted == {configs[k] : k \in DOMAIN configs}

LabelFits(label, values) == \/ values = {label}
                            \/ label = "mixed" /\ Cardinality(values) > 1

\* The parsers' arithmetic, in words of a machine, defaults and overrides give
\* each job the values its text means, in whichever format it is written, and
\* no text that means something is refused by a parser; JSON integers that are
\* no int are excepted (SetupAsDocumented).  The display's header names an
\* engine or a setting if and only if every job asks for it.
ConfigAsWritten ==
  /\ \A k \in DOMAIN configs :
       /\ Written(texts[k], configs[k])
       /\ pc \notin {"parse", "refused"} =>
            /\ configs[k].engine = OrElse(engine_override,
                                         OrElse(texts[k].engine, ""))
            /\ configs[k].direct = OrElse(direct_override,
                                         OrElse(texts[k].direct, TRUE))
  /\ pc = "refused" /\ i \in Jobs => ~WellFormed(texts[i])
  /\ pc \notin {"parse", "refused"} =>
       /\ LabelFits(EngineLabel, {c.engine : c \in Accepted})
       /\ LabelFits(DirectLabel, {OnOff(c.direct) : c \in Accepted})

\* i_config_parser.h:30, "@throws std::invalid_argument on invalid field
\* values": a job that was parsed has integers where integers are asked for.
InvalidIntegersRefused ==
  \A k \in DOMAIN configs :
    \A v \in texts[k].iodepth \union texts[k].rwmixread : IsAnInt(v)

\* display_context.h:15, "Text describing whether O_DIRECT is active": the
\* label says what the workers of the run were given.
LabelIsActive ==
  pc = "run" => LabelFits(DirectLabel,
                          {OnOff(direct_effective[k]) : k \in Jobs})

\* What the two headers promise of the parsers and of the display's context:
\* one of the two holds, so that a state that refutes this refutes both.
SetupAsDocumented == InvalidIntegersRefused \/ LabelIsActive

\* aligned_buffer.cpp:13, buffer_pool.cpp:56: a validated job meets what the
\* constructors of pool, buffer and generators ask for; only the pool's size
\* may still be too large for size_t.
AcceptedJobsConstruct ==
  pc = "construct" /\ i \in Jobs =>
    /\ PoolConstructs(configs[i]) \/ PoolOverflows(configs[i])
    /\ configs[i].block_size <= configs[i].file_size

\* offset_generator.h:33: every request lies in the file as it is on disk,
\* whichever jobs share it, and in the job's own size; it is aligned, and a
\* job that only reads never writes.
RequestsLegal ==
  \A k \in Jobs :
    request[k] # NoRequest =>
      LET c == configs[k]
          r == request[k]
      IN  /\ r.offset >= 0 /\ r.offset % c.alignment = 0
          /\ r.offset + c.block_size <= Min({c.file_size, disk[c.filename]})
          /\ r.direction = "write" =>
               /\ texts[k].rw \intersect {"read", "randread"} = {}
               /\ c.rw_mode \in {"readwrite", "randrw"} => c.rwmixread < 100

\* A sequential job visits every whole block in order and begins again: its
\* requests are the multiples of the block size modulo the whole blocks.
SequentialSweep ==
  [][\A k \in Jobs :
       LET c == configs[k]
           blocks == c.file_size \div c.block_size
       IN  request'[k] # request[k] /\ c.access_pattern = "sequential" =>
             request'[k].offset =
               IF request[k] = NoRequest THEN 0
               ELSE (request[k].offset + c.block_size)
                      % (blocks * c.block_size)]_vars
=============================================================================
