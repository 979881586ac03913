------------------------------ MODULE JobConfig ------------------------------
(***************************************************************************)
(* cfio's config directory: what the CSV and the JSON parser make of the   *)
(* text of one job, the sizes' arithmetic, and ConfigValidator's rules.    *)
(*                                                                         *)
(* A field of a text is the set of its values, empty when the field is     *)
(* missing.  A size is a number and a suffix; "nodigit" and "other" stand  *)
(* for the texts that do not begin with a digit and for an unknown suffix  *)
(* or one of several characters.  An integer field holds a number; it is   *)
(* exact when the number is what is written, and stands for what JSON      *)
(* makes of a float or a Boolean when it is not.  A text is `broken' when  *)
(* both parsers refuse the type of a value: an integer field that is no    *)
(* number, a Boolean field that is none.  size_t has SizeBits bits.        *)
(***************************************************************************)
EXTENDS Integers, Sequences

CONSTANTS SizeBits,     \* width of size_t, 64
          Kilo,         \* kKilo, 1024
          IntMax        \* largest int

ASSUME ConfigAssumption == /\ SizeBits \in Nat \ {0}
                           /\ Kilo \in Nat \ {0, 1}
                           /\ IntMax \in Nat /\ IntMax >= 100

SizeMod == 2 ^ SizeBits

\* Arithmetic the provers have no rules for.
ASSUME PowersArePositive == /\ SizeMod > 0
                            /\ \A p \in 0 .. 3 : Kilo ^ p > 0

SizeMax == SizeMod - 1
Ints == -IntMax - 1 .. IntMax

RWModes == {"read", "write", "randread", "randwrite", "readwrite", "randrw"}
KnownEngines == {"psync", "sync", "libaio", "io_uring"}
SyncEngines == {"sync", "psync"}

SizeSuffixes == {"", "k", "m", "g", "other", "nodigit"}
Empty == [n |-> 0, s |-> "nodigit"]
Default4k == [n |-> 4, s |-> "k"]

Number(n) == [n |-> n, exact |-> TRUE]
IsAnInt(v) == v.exact /\ v.n \in Ints

AtMostOne(field) == \A v, w \in field : v = w

\* What a parser is given: every field has one value or none.
IsText(text) ==
  /\ AtMostOne(text.name) /\ AtMostOne(text.engine) /\ AtMostOne(text.rw)
  /\ AtMostOne(text.bs) /\ AtMostOne(text.size) /\ AtMostOne(text.align)
  /\ AtMostOne(text.iodepth) /\ AtMostOne(text.rwmixread)
  /\ AtMostOne(text.direct) /\ AtMostOne(text.filename)
  /\ text.bs \union text.size \union text.align \subseteq [n : Nat, s : SizeSuffixes]
  /\ text.iodepth \union text.rwmixread \subseteq [n : Int, exact : BOOLEAN]
  /\ text.direct \subseteq BOOLEAN /\ text.broken \in BOOLEAN

\* A missing field has a default, or none.
OrElse(field, default) == IF field = {} THEN default
                          ELSE CHOOSE v \in field : TRUE

-----------------------------------------------------------------------------
(***************************************************************************)
(* SizeParser::Parse.                                                      *)
(***************************************************************************)

Power == [s \in {"", "k", "m", "g"} |->
            CASE s = "" -> 0 [] s = "k" -> 1 [] s = "m" -> 2 [] s = "g" -> 3]

Multiplier(suffix) == Kilo ^ Power[suffix]

\* faulty variant: the product is not looked at
OverflowsBefore(t) == t.n > SizeMax

\* stoull is out of range, or the product would be.
Overflows(t) == \/ t.n > SizeMax
                \/ t.n > SizeMax \div Multiplier(t.s)

SizeThrows(t, allowed) == t.s \notin allowed \/ Overflows(t)

SizeOf(t) == (t.n * Multiplier(t.s)) % SizeMod

KM == {"", "k", "m"}
KMG == KM \union {"g"}

-----------------------------------------------------------------------------
(***************************************************************************)
(* JobConfig, and ParseJob of the two parsers.                             *)
(***************************************************************************)

DeriveAccessPattern(mode) ==
  IF mode \in {"read", "write", "readwrite"} THEN "sequential" ELSE "random"

EffectiveIODepth(config) == IF config.engine \in SyncEngines THEN 1
                            ELSE config.iodepth

\* An empty cell of a CSV file is a missing field; in JSON it is a value.
Cell(format, field, empty) == IF format = "csv" THEN field \ {empty}
                              ELSE field

\* stoi throws out of range, ParseInt on what follows the digits of a float;
\* the JSON library converts any number or Boolean to int silently.
IntThrows(format, field) == format = "csv" /\ \E v \in field : ~IsAnInt(v)

ToInt(n) == ((n + IntMax + 1) % (2 * (IntMax + 1))) - (IntMax + 1)

Align(format, text) == OrElse(Cell(format, text.align, Empty), Default4k)

ParseThrows(format, text) ==
  \/ text.broken
  \/ {} \in {Cell(format, text.name, ""), Cell(format, text.engine, ""),
             text.rw, text.bs, text.size}
  \/ ~(text.rw \subseteq RWModes)
  \/ \E t \in text.bs : SizeThrows(t, KM)
  \/ \E t \in text.size : SizeThrows(t, KMG)
  \/ SizeThrows(Align(format, text), KM)
  \/ IntThrows(format, text.iodepth) \/ IntThrows(format, text.rwmixread)

\* A file is the path that was given, or the one made from the job's name.
DefaultFile(name) == <<"default", name>>
GivenFile(path) == <<"given", path>>

\* What ParseJob returns for a text it does not throw on.
ParseJob(format, text) ==
  LET name == OrElse(text.name, "")
      mode == OrElse(text.rw, "")
      path == Cell(format, text.filename, "") \ {""}
  IN  [name           |-> name,
       engine         |-> OrElse(text.engine, ""),
       rw_mode        |-> mode,
       access_pattern |-> DeriveAccessPattern(mode),
       block_size     |-> SizeOf(OrElse(text.bs, Empty)),
       file_size      |-> SizeOf(OrElse(text.size, Empty)),
       iodepth        |-> ToInt(OrElse(text.iodepth, Number(1)).n),
       direct         |-> OrElse(text.direct, TRUE),
       rwmixread      |-> ToInt(OrElse(text.rwmixread, Number(50)).n),
       filename       |-> IF path = {} THEN DefaultFile(name)
                          ELSE GivenFile(OrElse(path, "")),
       alignment      |-> SizeOf(Align(format, text))]

-----------------------------------------------------------------------------
(***************************************************************************)
(* ConfigValidator.                                                        *)
(***************************************************************************)

IsPowerOf2(n) == n \in {2 ^ k : k \in 0 .. SizeBits - 1}

\* faulty variant: the power of two is not asked for
AlignmentPositive(config) == config.alignment > 0

AlignmentValid(config) == config.alignment > 0 /\ IsPowerOf2(config.alignment)

BlockSizeValid(config) == /\ config.block_size > 0
                          /\ config.block_size % config.alignment = 0

FileSizeValid(config) == /\ config.file_size >= config.block_size
                         /\ config.file_size % config.alignment = 0

Validate(config) == /\ config.name # ""
                    /\ AlignmentValid(config)
                    /\ BlockSizeValid(config)
                    /\ FileSizeValid(config)
                    /\ config.engine \in KnownEngines
                    /\ config.rw_mode \in RWModes
                    /\ config.rwmixread \in 0 .. 100
                    /\ config.iodepth >= 1

UniqueNames(configs) == \A i, j \in DOMAIN configs :
                          configs[i].name = configs[j].name => i = j

ValidateAll(configs) == /\ configs # <<>>
                        /\ \A i \in DOMAIN configs : Validate(configs[i])
                        /\ UniqueNames(configs)
=============================================================================
