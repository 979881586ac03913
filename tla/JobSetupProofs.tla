--------------------------- MODULE JobSetupProofs ---------------------------
(***************************************************************************)
(* From a job file to requests, for every word size, every set of job      *)
(* files and any number of jobs: jobs are as written (JobsAreAsWritten),   *)
(* what was validated constructs (ValidatedJobsConstruct), every request   *)
(* is legal (EveryRequestIsLegal), sequential jobs sweep their file        *)
(* (SequentialJobsSweep).                                                  *)
(*                                                                         *)
(* What the requests need is known at three places far from them: parsers  *)
(* whose sizes are exact (ParsedSizes), the validator's divisibility       *)
(* (ValidJob), and the preparation, which refuses a size off_t cannot hold *)
(* and so keeps every later sum of the generators below size_t's end       *)
(* (Holds, NextBlock).  IInv carries the three to the workers.             *)
(***************************************************************************)
EXTENDS JobSetup, SequenceTheorems, FiniteSetTheorems, TLAPS

-----------------------------------------------------------------------------
(***************************************************************************)
(* Arithmetic: products, divisions and remainders.                         *)
(***************************************************************************)

\* A product of naturals is one, and no smaller than a factor times one.
LEMMA Products ==
  ASSUME NEW a \in Nat, NEW b \in Nat
  PROVE  a * b \in Nat /\ (a > 0 /\ b > 0 => a * b > 0 /\ a * b >= a)
OBVIOUS

\* A quotient bounds exactly the factors whose product fits.
LEMMA QuotientBounds ==
  ASSUME NEW a \in Nat, NEW m \in Nat \ {0}, NEW n \in Nat
  PROVE  n <= a \div m <=> n * m <= a
<1>1. n <= a \div m => n * m <= a
  OBVIOUS
<1>2. n * m <= a => n <= a \div m
  OBVIOUS
<1> QED
  BY <1>1, <1>2

\* The remainder of what is below the divisor.
LEMMA RemainderBelow ==
  ASSUME NEW a \in Nat, NEW m \in Nat, a < m
  PROVE  a % m = a
OBVIOUS

\* A quotient times the divisor is a natural, and below what was divided.
LEMMA RoundedDown ==
  ASSUME NEW a \in Nat, NEW m \in Nat \ {0}
  PROVE  /\ a \div m \in Nat
         /\ (a \div m) * m \in Nat /\ (a \div m) * m <= a
         /\ a < (a \div m) * m + m
OBVIOUS

\* A remainder of zero is a factor, and the other way around.
LEMMA Multiples ==
  ASSUME NEW a \in Nat, NEW m \in Nat \ {0}
  PROVE  /\ a % m = 0 => (a \div m) \in Nat /\ a = (a \div m) * m
         /\ \A q \in Nat : a = q * m => a % m = 0
<1>1. a % m = 0 => (a \div m) \in Nat /\ a = (a \div m) * m
  OBVIOUS
<1>2. ASSUME NEW q \in Nat, a = q * m PROVE a % m = 0
  BY <1>2
<1> QED
  BY <1>1, <1>2

\* A multiple of a multiple is a multiple.
LEMMA MultipleOfMultiple ==
  ASSUME NEW a \in Nat \ {0}, NEW b \in Nat, NEW q \in Nat, b % a = 0
  PROVE  q * b \in Nat /\ (q * b) % a = 0
<1> DEFINE p == b \div a
<1>1. p \in Nat /\ b = p * a
  BY Multiples
<1> HIDE DEF p
<1>2. q * p \in Nat /\ q * b \in Nat
  BY <1>1
<1>3. q * b = (q * p) * a
  BY <1>1
<1> QED
  BY <1>2, <1>3, Multiples

\* size_t's words are numbers.
LEMMA Words == SizeMod \in Nat \ {0} /\ SizeMax \in Nat /\ SizeMax < SizeMod
<1>1. SizeMod \in Int
  BY ConfigAssumption DEF ConfigAssumption, SizeMod
<1> QED
  BY <1>1, PowersArePositive DEF PowersArePositive, SizeMax

\* The multiplier of a suffix.
LEMMA Multipliers ==
  ASSUME NEW s \in KMG
  PROVE  Power[s] \in 0 .. 3 /\ Multiplier(s) \in Nat \ {0}
<1>1. Power[s] \in 0 .. 3
  <2>1. s = "" \/ s = "k" \/ s = "m" \/ s = "g"
    BY DEF KMG, KM
  <2>2. s = "" => Power[s] \in 0 .. 3
    <3>1. s = "" => Power[s] = 0
      BY DEF Power
    <3>2. 0 \in 0 .. 3
      OBVIOUS
    <3> QED
      BY <3>1, <3>2, Zenon
  <2>3. s = "k" => Power[s] \in 0 .. 3
    BY DEF Power
  <2>4. s = "m" => Power[s] \in 0 .. 3
    BY DEF Power
  <2>5. s = "g" => Power[s] \in 0 .. 3
    BY DEF Power
  <2> QED
    BY <2>1, <2>2, <2>3, <2>4, <2>5
<1>2. Multiplier(s) \in Int
  BY <1>1, ConfigAssumption DEF ConfigAssumption, Multiplier
<1> QED
  BY <1>1, <1>2, PowersArePositive DEF PowersArePositive, Multiplier

-----------------------------------------------------------------------------
(***************************************************************************)
(* SizeParser and the integers: what is not refused means what it says.    *)
(***************************************************************************)

SizeTextSet == [n : Nat, s : SizeSuffixes]

\* A size is refused exactly where its meaning does not fit into a size_t.
LEMMA OverflowsIsExact ==
  ASSUME NEW t \in SizeTextSet, t.s \in KMG
  PROVE  /\ Exact(t) \in Nat
         /\ Overflows(t) <=> Exact(t) > SizeMax
         /\ ~Overflows(t) => SizeOf(t) = Exact(t)
<1>1. PICK m \in Nat \ {0} : m = Multiplier(t.s)
  BY Multipliers
<1>2. PICK n \in Nat : n = t.n
  BY DEF SizeTextSet
<1>3. Exact(t) = n * m
  BY <1>1, <1>2 DEF Exact, Multiplier
<1>4. n * m \in Nat /\ n * m >= n
  BY <1>1, <1>2, Products
<1>5. n <= SizeMax \div m <=> n * m <= SizeMax
  BY <1>1, <1>2, Words, QuotientBounds
<1>6. Overflows(t) <=> n * m > SizeMax
  <2>1. SizeMax \div m \in Nat
    BY <1>1, Words, RoundedDown
  <2>2. Overflows(t) <=> n > SizeMax \/ n > SizeMax \div m
    BY <1>1, <1>2 DEF Overflows
  <2>3. SizeMax \in Nat
    BY Words
  <2> QED
    BY <1>4, <1>5, <2>1, <2>2, <2>3
<1>7. ASSUME ~Overflows(t) PROVE SizeOf(t) = Exact(t)
  <2>1. n * m < SizeMod
    BY <1>4, <1>6, <1>7, Words
  <2>2. (n * m) % SizeMod = n * m
    BY <2>1, <1>4, Words, RemainderBelow
  <2> QED
    BY <2>2, <1>1, <1>2, <1>3 DEF SizeOf
<1> QED
  BY <1>3, <1>4, <1>6, <1>7

\* What SizeParser returns is a word of the machine.
LEMMA SizesAreWords ==
  ASSUME NEW t \in SizeTextSet, NEW allowed, allowed \in {KM, KMG},
         ~SizeThrows(t, allowed)
  PROVE  /\ t.s \in allowed /\ t.s \in KMG
         /\ SizeOf(t) = Exact(t) /\ SizeOf(t) \in Nat /\ SizeOf(t) <= SizeMax
<1>1. t.s \in allowed /\ t.s \in KMG /\ ~Overflows(t)
  BY DEF SizeThrows, KM, KMG
<1> QED
  BY <1>1, OverflowsIsExact, Words

\* ToInt leaves an int as it is.
LEMMA IntsStay == ASSUME NEW n \in Ints PROVE ToInt(n) = n
<1>1. IntMax \in Nat /\ n \in Int /\ n >= -IntMax - 1 /\ n <= IntMax
  BY ConfigAssumption DEF ConfigAssumption, Ints
<1>2. PICK m \in Nat : m = n + IntMax + 1
  BY <1>1
<1>3. m < 2 * (IntMax + 1)
  BY <1>1, <1>2
<1>4. 2 * (IntMax + 1) \in Nat
  BY <1>1
<1>5. m % (2 * (IntMax + 1)) = m
  BY <1>3, <1>4, RemainderBelow
<1> QED
  BY <1>1, <1>2, <1>5 DEF ToInt

\* It returns an int whatever it is given.
LEMMA IntsAreInts == ASSUME NEW n \in Int PROVE ToInt(n) \in Ints
<1>1. IntMax \in Nat
  BY ConfigAssumption DEF ConfigAssumption
<1>2. PICK m \in Nat \ {0} : m = 2 * (IntMax + 1)
  BY <1>1
<1>3. PICK k \in Int : k = n + IntMax + 1
  BY <1>1
<1>4. k % m \in 0 .. m - 1
  BY <1>2, <1>3
<1>5. ToInt(n) = (k % m) - (IntMax + 1)
  BY <1>2, <1>3 DEF ToInt
<1> QED
  BY <1>1, <1>2, <1>4, <1>5 DEF Ints

\* The value of a field that has one.
LEMMA OrElseIn ==
  ASSUME NEW field, NEW default
  PROVE  /\ field # {} => OrElse(field, default) \in field
         /\ field = {} => OrElse(field, default) = default
         /\ AtMostOne(field) => \A v \in field : OrElse(field, default) = v
BY DEF OrElse, AtMostOne

\* The cell of a CSV file without the empty value.
LEMMA CellOf ==
  ASSUME NEW f, NEW field, NEW empty
  PROVE  /\ Cell(f, field, empty) \subseteq field
         /\ f # "csv" => Cell(f, field, empty) = field
         /\ AtMostOne(field) => AtMostOne(Cell(f, field, empty))
         /\ field \notin {{}, {empty}} /\ AtMostOne(field)
              => Cell(f, field, empty) = field
BY DEF Cell, AtMostOne

-----------------------------------------------------------------------------
(***************************************************************************)
(* ParseJob: the job that is made from a text.                             *)
(***************************************************************************)

\* The alignment that is parsed is a size, and the one the text means.
LEMMA AlignIsASize ==
  ASSUME NEW text, IsText(text)
  PROVE  /\ Align(format, text) \in SizeTextSet
         /\ Align(format, text) = AlignText(text)
<1>1. Default4k \in SizeTextSet
  BY DEF Default4k, SizeTextSet, SizeSuffixes
<1>2. text.align \subseteq SizeTextSet /\ AtMostOne(text.align)
  BY DEF IsText, SizeTextSet
<1>3. CASE text.align = {} \/ (format = "csv" /\ text.align = {Empty})
  <2>1. Cell(format, text.align, Empty) = {}
    BY <1>3 DEF Cell
  <2> QED
    BY <1>1, <1>3, <2>1 DEF Align, AlignText, OrElse
<1>4. CASE ~(text.align = {} \/ (format = "csv" /\ text.align = {Empty}))
  <2>1. Cell(format, text.align, Empty) = text.align
    BY <1>2, <1>4 DEF Cell, AtMostOne
  <2>2. Align(format, text) = CHOOSE t \in text.align : TRUE
    BY <1>4, <2>1 DEF Align, OrElse
  <2>3. AlignText(text) = CHOOSE t \in text.align : TRUE
    BY <1>4 DEF AlignText
  <2>4. (CHOOSE t \in text.align : TRUE) \in text.align
    BY <1>4
  <2> QED
    BY <1>2, <2>2, <2>3, <2>4
<1> QED
  BY <1>3, <1>4

\* What a parser did not throw on has every required field, and one value each.
LEMMA ParsedFields ==
  ASSUME NEW text, IsText(text), ~ParseThrows(format, text),
         format \in {"json", "csv"}
  PROVE  /\ OrElse(text.name, "") \in text.name
         /\ text.rw = {OrElse(text.rw, "")}
         /\ OrElse(text.rw, "") \in RWModes
         /\ OrElse(text.bs, Empty) \in text.bs
         /\ ~SizeThrows(OrElse(text.bs, Empty), KM)
         /\ OrElse(text.size, Empty) \in text.size
         /\ ~SizeThrows(OrElse(text.size, Empty), KMG)
         /\ ~SizeThrows(Align(format, text), KM)
<1>1. /\ Cell(format, text.name, "") # {} /\ text.rw # {}
      /\ text.bs # {} /\ text.size # {}
  BY DEF ParseThrows
<1>2. text.name # {}
  BY <1>1 DEF Cell
<1>3. AtMostOne(text.rw) /\ text.rw \subseteq RWModes
  BY DEF IsText, ParseThrows
<1>4. OrElse(text.rw, "") \in text.rw /\ text.rw = {OrElse(text.rw, "")}
  BY <1>1, <1>3 DEF OrElse, AtMostOne
<1>5. /\ OrElse(text.name, "") \in text.name
      /\ OrElse(text.bs, Empty) \in text.bs
      /\ OrElse(text.size, Empty) \in text.size
  BY <1>1, <1>2, OrElseIn
<1>6. /\ \A t \in text.bs : ~SizeThrows(t, KM)
      /\ \A t \in text.size : ~SizeThrows(t, KMG)
      /\ ~SizeThrows(Align(format, text), KM)
  BY DEF ParseThrows
<1> QED
  BY <1>3, <1>4, <1>5, <1>6

\* The sizes of a parsed job are the ones its text means, in words.
LEMMA ParsedSizes ==
  ASSUME NEW text, IsText(text), ~ParseThrows(format, text),
         format \in {"json", "csv"}
  PROVE  LET c == ParseJob(format, text)
         IN  /\ c.block_size \in {Exact(t) : t \in text.bs}
             /\ c.file_size \in {Exact(t) : t \in text.size}
             /\ c.alignment = Exact(AlignText(text))
             /\ c.block_size \in Nat /\ c.block_size <= SizeMax
             /\ c.file_size \in Nat /\ c.file_size <= SizeMax
             /\ c.alignment \in Nat /\ c.alignment <= SizeMax
<1> DEFINE b == OrElse(text.bs, Empty)
           s == OrElse(text.size, Empty)
           a == Align(format, text)
           c == ParseJob(format, text)
<1>1. /\ b \in text.bs /\ ~SizeThrows(b, KM)
      /\ s \in text.size /\ ~SizeThrows(s, KMG)
      /\ ~SizeThrows(a, KM)
  BY ParsedFields
<1>2. b \in SizeTextSet /\ s \in SizeTextSet /\ a \in SizeTextSet
  BY <1>1, AlignIsASize DEF IsText, SizeTextSet
<1>3. a = AlignText(text)
  BY AlignIsASize
<1>4. /\ c.block_size = SizeOf(b) /\ c.file_size = SizeOf(s)
      /\ c.alignment = SizeOf(a)
  BY DEF ParseJob
<1> HIDE DEF b, s, a, c
<1>5. SizeOf(b) = Exact(b) /\ SizeOf(b) \in Nat /\ SizeOf(b) <= SizeMax
  BY <1>1, <1>2, SizesAreWords
<1>6. SizeOf(s) = Exact(s) /\ SizeOf(s) \in Nat /\ SizeOf(s) <= SizeMax
  BY <1>1, <1>2, SizesAreWords
<1>7. SizeOf(a) = Exact(a) /\ SizeOf(a) \in Nat /\ SizeOf(a) <= SizeMax
  BY <1>1, <1>2, SizesAreWords
<1>8. /\ Exact(b) \in {Exact(t) : t \in text.bs}
      /\ Exact(s) \in {Exact(t) : t \in text.size}
  BY <1>1
<1>9. /\ c.block_size \in {Exact(t) : t \in text.bs}
      /\ c.file_size \in {Exact(t) : t \in text.size}
      /\ c.alignment = Exact(AlignText(text))
  BY <1>3, <1>4, <1>5, <1>6, <1>7, <1>8
<1>10. /\ c.block_size \in Nat /\ c.block_size <= SizeMax
       /\ c.file_size \in Nat /\ c.file_size <= SizeMax
       /\ c.alignment \in Nat /\ c.alignment <= SizeMax
  BY <1>4, <1>5, <1>6, <1>7
<1> QED
  BY <1>9, <1>10 DEF c

\* An integer is the one that was written, or one JSON cannot hold.
LEMMA ParsedInt ==
  ASSUME NEW field, NEW default \in Ints,
         field \subseteq [n : Int, exact : BOOLEAN],
         format \in {"json", "csv"}, ~IntThrows(format, field)
  PROVE  LET value == ToInt(OrElse(field, Number(default)).n)
         IN  value \in Ints /\ IntWritten(field, default, value)
<1> DEFINE value == ToInt(OrElse(field, Number(default)).n)
<1>1. CASE field = {}
  <2>1. OrElse(field, Number(default)).n = default
    BY <1>1, OrElseIn DEF Number
  <2>2. value = default
    BY <2>1, IntsStay
  <2> QED
    BY <1>1, <2>2 DEF IntWritten
<1>2. CASE field # {}
  <2>1. PICK v \in field : v = OrElse(field, Number(default))
    BY <1>2, OrElseIn
  <2>2. v.n \in Int /\ value = ToInt(v.n)
    BY <2>1
  <2>3. value \in Ints
    BY <2>2, IntsAreInts
  <2>4. CASE IsAnInt(v)
    <3>1. v.n \in Ints
      BY <2>4 DEF IsAnInt
    <3>2. value = v.n
      BY <2>2, <3>1, IntsStay
    <3> QED
      BY <2>3, <2>4, <3>2 DEF IntWritten
  <2>5. CASE ~IsAnInt(v)
    <3>1. format = "json"
      BY <2>5 DEF IntThrows
    <3> QED
      BY <2>3, <2>5, <3>1 DEF IntWritten
  <2> QED
    BY <2>4, <2>5
<1> QED
  BY <1>1, <1>2

\* A job that was parsed is the one that is written in its text.
LEMMA ParsedIsWritten ==
  ASSUME NEW text, IsText(text), ~ParseThrows(format, text),
         format \in {"json", "csv"}
  PROVE  Written(text, ParseJob(format, text))
<1> DEFINE c == ParseJob(format, text)
           mode == OrElse(text.rw, "")
           path == text.filename \ {""}
<1>1. c.name \in text.name
  BY ParsedFields DEF ParseJob
<1>2. c.rw_mode \in text.rw
  BY ParsedFields DEF ParseJob
<1>3. c.access_pattern = "random"
        <=> text.rw \subseteq {"randread", "randwrite", "randrw"}
  <2>1. c.access_pattern = DeriveAccessPattern(mode)
    BY DEF ParseJob
  <2>2. text.rw = {mode} /\ mode \in RWModes
    BY ParsedFields
  <2> HIDE DEF mode, c
  <2> QED
    BY <2>1, <2>2 DEF DeriveAccessPattern, RWModes
<1>4. /\ c.block_size \in {Exact(t) : t \in text.bs}
      /\ c.file_size \in {Exact(t) : t \in text.size}
      /\ c.alignment = Exact(AlignText(text))
  BY ParsedSizes
<1>5. /\ IntWritten(text.iodepth, 1, c.iodepth)
      /\ IntWritten(text.rwmixread, 50, c.rwmixread)
  <2>1. 1 \in Ints /\ 50 \in Ints
    BY ConfigAssumption DEF ConfigAssumption, Ints
  <2>2. /\ text.iodepth \subseteq [n : Int, exact : BOOLEAN]
        /\ text.rwmixread \subseteq [n : Int, exact : BOOLEAN]
        /\ ~IntThrows(format, text.iodepth)
        /\ ~IntThrows(format, text.rwmixread)
    BY DEF IsText, ParseThrows
  <2>3. /\ c.iodepth = ToInt(OrElse(text.iodepth, Number(1)).n)
        /\ c.rwmixread = ToInt(OrElse(text.rwmixread, Number(50)).n)
    BY DEF ParseJob
  <2> HIDE DEF c
  <2> QED
    BY <2>1, <2>2, <2>3, ParsedInt
<1>6. c.filename \in IF text.filename \subseteq {""}
                     THEN {DefaultFile(c.name)}
                     ELSE {GivenFile(f) : f \in text.filename}
  <2>1. Cell(format, text.filename, "") \ {""} = path
    BY DEF Cell
  <2>2. c.filename = IF path = {} THEN DefaultFile(c.name)
                     ELSE GivenFile(OrElse(path, ""))
    BY <2>1 DEF ParseJob
  <2>3. path = {} <=> text.filename \subseteq {""}
    OBVIOUS
  <2>4. path # {} => OrElse(path, "") \in text.filename
    BY OrElseIn
  <2> HIDE DEF path, c
  <2> QED
    BY <2>2, <2>3, <2>4
<1> HIDE DEF c
<1>7. Written(text, c)
  BY <1>1, <1>2, <1>3, <1>4, <1>5, <1>6 DEF Written
<1> QED
  BY <1>7 DEF c

\* A size that is written within the machine is not refused.
LEMMA WrittenSizesFit ==
  ASSUME NEW t \in SizeTextSet, NEW allowed, allowed \in {KM, KMG},
         SizeWritten(t, allowed)
  PROVE  ~SizeThrows(t, allowed)
<1>1. t.s \in allowed /\ t.s \in KMG /\ Exact(t) <= SizeMax
  BY DEF SizeWritten, KM, KMG
<1>2. Exact(t) \in Nat /\ (Overflows(t) <=> Exact(t) > SizeMax)
  BY <1>1, OverflowsIsExact
<1> QED
  BY <1>1, <1>2, Words DEF SizeThrows

\* A text that means something is not refused by a parser.
LEMMA WellFormedIsParsed ==
  ASSUME NEW text, IsText(text), WellFormed(text)
  PROVE  ~ParseThrows(format, text)
<1>1. /\ text.name \notin {{}, {""}} /\ text.engine \notin {{}, {""}}
      /\ text.rw # {} /\ text.rw \subseteq RWModes
  BY DEF WellFormed
<1>2. /\ Cell(format, text.name, "") = text.name
      /\ Cell(format, text.engine, "") = text.engine
  <2>1. AtMostOne(text.name) /\ AtMostOne(text.engine)
    BY DEF IsText
  <2> QED
    BY <1>1, <2>1, CellOf
<1>3. /\ text.bs \subseteq SizeTextSet /\ AtMostOne(text.bs)
      /\ text.size \subseteq SizeTextSet /\ AtMostOne(text.size)
  BY DEF IsText, SizeTextSet
<1>4. PICK b \in text.bs : SizeWritten(b, KM)
  BY DEF WellFormed, KM
<1>5. PICK s \in text.size : SizeWritten(s, KMG)
  <2>1. KMG = {"", "k", "m", "g"}
    BY DEF KM, KMG
  <2> QED
    BY <2>1 DEF WellFormed
<1>6. SizeWritten(Align(format, text), KM)
  BY AlignIsASize DEF WellFormed, KM
<1>7. \A t \in text.bs : ~SizeThrows(t, KM)
  BY <1>3, <1>4, WrittenSizesFit DEF AtMostOne
<1>8. \A t \in text.size : ~SizeThrows(t, KMG)
  BY <1>3, <1>5, WrittenSizesFit DEF AtMostOne
<1>9. ~SizeThrows(Align(format, text), KM)
  BY <1>6, AlignIsASize, WrittenSizesFit
<1>10. ~IntThrows(format, text.iodepth) /\ ~IntThrows(format, text.rwmixread)
  BY DEF WellFormed, IntThrows
<1>11. ~text.broken /\ text.bs # {} /\ text.size # {}
  BY <1>4, <1>5 DEF WellFormed
<1> QED
  BY <1>1, <1>2, <1>7, <1>8, <1>9, <1>10, <1>11 DEF ParseThrows

-----------------------------------------------------------------------------
(***************************************************************************)
(* The invariant.                                                          *)
(***************************************************************************)

Parsed(k) == ParseJob(format, texts[k])
Sequential(k) == configs[k].access_pattern = "sequential"

Begun == pc \notin {"parse", "refused"}         \* main has valid jobs
Prepared == {"prepare", "construct", "run"}

InputInv ==
  /\ format \in {"json", "csv"}
  /\ texts \in JobFiles
  /\ engine_override \in EngineOverrides
  /\ direct_override \in DirectOverrides

PlaceInv ==
  /\ pc \in {"parse", "refused", "prepare", "construct", "run", "failed"}
  /\ i \in 1 .. Len(texts) + 1

\* The job is the parsed one, except for what main overrides.
SameJob(c, d) ==
  /\ c.name = d.name /\ c.rw_mode = d.rw_mode
  /\ c.access_pattern = d.access_pattern
  /\ c.block_size = d.block_size /\ c.file_size = d.file_size
  /\ c.alignment = d.alignment /\ c.iodepth = d.iodepth
  /\ c.rwmixread = d.rwmixread /\ c.filename = d.filename

OverridesApplied(k) ==
  /\ configs[k].engine = OrElse(engine_override, Parsed(k).engine)
  /\ configs[k].direct = OrElse(direct_override, Parsed(k).direct)

ParseInv ==
  /\ pc = "parse" => configs = [k \in 1 .. i - 1 |-> Parsed(k)]
  /\ DOMAIN configs \subseteq Jobs
  /\ \A k \in DOMAIN configs : /\ ~ParseThrows(format, texts[k])
                               /\ SameJob(configs[k], Parsed(k))
  /\ pc = "refused" /\ i \in Jobs => ParseThrows(format, texts[i])
  /\ Begun => /\ DOMAIN configs = Jobs /\ Jobs # {}
              /\ ValidateAll(configs)
              /\ \A k \in Jobs : OverridesApplied(k)

\* A file that was prepared holds the job, and its size is an off_t.
Holds(k) == /\ configs[k].file_size < SizeMod \div 2
            /\ configs[k].file_size <= disk[configs[k].filename]

DiskInv ==
  pc \in Prepared =>
    /\ DOMAIN disk = Files
    /\ \A f \in Files : disk[f] \in Nat
    /\ \A k \in Jobs : pc = "prepare" /\ k < i => Holds(k)
    /\ pc # "prepare" => \A k \in Jobs : Holds(k)

\* A cursor is at a block of the file.
AtBlock(k, offset) ==
  /\ offset \in Nat /\ offset + configs[k].block_size <= configs[k].file_size
  /\ \E q \in Nat : offset = q * configs[k].block_size

InFile(k) ==
  /\ request[k].offset \in Nat
  /\ request[k].offset % configs[k].alignment = 0
  /\ request[k].offset + configs[k].block_size <= configs[k].file_size
  /\ request[k].direction \in Directions(configs[k])

\* The cursor of a sequential job is where its last request leads.
Follows(k) ==
  Sequential(k) =>
    /\ AtBlock(k, cursor[k])
    /\ request[k] = NoRequest => cursor[k] = 0
    /\ request[k] # NoRequest =>
         /\ AtBlock(k, request[k].offset)
         /\ cursor[k] = NextSequential(configs[k], request[k].offset)

RequestInv ==
  /\ DOMAIN cursor = Jobs /\ DOMAIN request = Jobs
  /\ pc # "run" => \A k \in Jobs : cursor[k] = 0 /\ request[k] = NoRequest
  /\ pc = "run" =>
       \A k \in Jobs : Follows(k) /\ (request[k] # NoRequest => InFile(k))

IInv == InputInv /\ PlaceInv /\ ParseInv /\ DiskInv /\ RequestInv

-----------------------------------------------------------------------------
(***************************************************************************)
(* What the invariant says of jobs.                                        *)
(***************************************************************************)

\* The jobs of a file are numbered from one, and each is a text.
LEMMA JobsAreNumbered ==
  ASSUME InputInv
  PROVE  /\ Len(texts) \in Nat /\ Jobs = 1 .. Len(texts)
         /\ \A k \in Jobs : IsText(texts[k])
BY SetupAssumption DEF SetupAssumption, InputInv, Jobs

\* What is written in the text is written in every job that is the parsed one.
LEMMA SameIsWritten ==
  ASSUME NEW text, NEW c, NEW d, SameJob(c, d), Written(text, d)
  PROVE  Written(text, c)
BY DEF SameJob, Written

\* Overrides change the engine and the direct flag, and nothing else.
LEMMA OverriddenFields ==
  ASSUME NEW k, NEW text, configs[k] = ParseJob(format, text)
  PROVE  /\ SameJob(Overridden(k), configs[k])
         /\ Overridden(k).engine = OrElse(engine_override, configs[k].engine)
         /\ Overridden(k).direct = OrElse(direct_override, configs[k].direct)
<1> DEFINE p == ParseJob(format, text)
           R == [name : {p.name}, engine : {p.engine}, rw_mode : {p.rw_mode},
                 access_pattern : {p.access_pattern},
                 block_size : {p.block_size}, file_size : {p.file_size},
                 iodepth : {p.iodepth}, direct : {p.direct},
                 rwmixread : {p.rwmixread}, filename : {p.filename},
                 alignment : {p.alignment}]
<1>1. p \in R
  BY DEF ParseJob
<1>2. PICK c \in R : c = configs[k]
  BY <1>1
<1>3. PICK d : d = OrElse(direct_override, c.direct)
  OBVIOUS
<1>4. PICK e : e = OrElse(engine_override, c.engine)
  OBVIOUS
<1>5. Overridden(k) = [c EXCEPT !.direct = d, !.engine = e]
  BY <1>2, <1>3, <1>4 DEF Overridden
<1>6. PICK r : r = [c EXCEPT !.direct = d, !.engine = e]
  OBVIOUS
<1>7. r.direct = d /\ r.engine = e
  BY <1>6
<1>8. SameJob(r, c)
  BY <1>6 DEF SameJob
<1> QED
  BY <1>2, <1>3, <1>4, <1>5, <1>6, <1>7, <1>8

\* What a validated job is.
LEMMA ValidJob ==
  ASSUME IInv, Begun, NEW k \in Jobs
  PROVE  /\ configs[k].block_size \in Nat \ {0}
         /\ configs[k].block_size <= SizeMax
         /\ configs[k].file_size \in Nat
         /\ configs[k].file_size <= SizeMax
         /\ configs[k].block_size <= configs[k].file_size
         /\ configs[k].alignment \in Nat \ {0}
         /\ configs[k].block_size % configs[k].alignment = 0
         /\ IsPowerOf2(configs[k].alignment)
         /\ configs[k].iodepth \in Nat \ {0}
         /\ configs[k].rwmixread \in 0 .. 100
         /\ configs[k].rw_mode \in RWModes
<1>1. /\ IsText(texts[k]) /\ ~ParseThrows(format, texts[k])
      /\ SameJob(configs[k], Parsed(k))
      /\ Validate(configs[k])
      /\ format \in {"json", "csv"}
  BY JobsAreNumbered DEF IInv, ParseInv, InputInv, ValidateAll
<1>2. /\ Parsed(k).block_size \in Nat /\ Parsed(k).block_size <= SizeMax
      /\ Parsed(k).file_size \in Nat /\ Parsed(k).file_size <= SizeMax
      /\ Parsed(k).alignment \in Nat
  BY <1>1, ParsedSizes DEF Parsed
<1>3. Parsed(k).iodepth \in Int
  <2>1. /\ texts[k].iodepth \subseteq [n : Int, exact : BOOLEAN]
        /\ ~IntThrows(format, texts[k].iodepth)
    BY <1>1 DEF IsText, ParseThrows
  <2>2. 1 \in Ints /\ Ints \subseteq Int
    BY ConfigAssumption DEF ConfigAssumption, Ints
  <2>3. ToInt(OrElse(texts[k].iodepth, Number(1)).n) \in Ints
    BY <1>1, <2>1, <2>2, ParsedInt
  <2>4. Parsed(k).iodepth = ToInt(OrElse(texts[k].iodepth, Number(1)).n)
    BY DEF Parsed, ParseJob
  <2> QED
    BY <2>2, <2>3, <2>4
<1>4. /\ configs[k].block_size \in Nat /\ configs[k].block_size <= SizeMax
      /\ configs[k].file_size \in Nat /\ configs[k].file_size <= SizeMax
      /\ configs[k].alignment \in Nat
      /\ configs[k].iodepth \in Int
  BY <1>1, <1>2, <1>3 DEF SameJob
<1>5. /\ configs[k].alignment > 0 /\ IsPowerOf2(configs[k].alignment)
      /\ configs[k].block_size > 0
      /\ configs[k].block_size % configs[k].alignment = 0
      /\ configs[k].file_size >= configs[k].block_size
      /\ configs[k].rw_mode \in RWModes
      /\ configs[k].rwmixread \in 0 .. 100
      /\ configs[k].iodepth >= 1
  BY <1>1 DEF Validate, AlignmentValid, BlockSizeValid, FileSizeValid
<1> QED
  BY <1>4, <1>5

-----------------------------------------------------------------------------
(***************************************************************************)
(* The steps of main up to the workers.                                    *)
(***************************************************************************)

\* At the beginning nothing is parsed and nothing was requested.
LEMMA InitInvariant == Init => IInv
<1> SUFFICES ASSUME Init PROVE IInv
  OBVIOUS
<1>1. InputInv /\ Len(texts) \in Nat /\ Jobs = 1 .. Len(texts)
  <2>1. InputInv
    BY DEF Init, InputInv
  <2> QED
    BY <2>1, JobsAreNumbered
<1>2. PlaceInv
  BY <1>1 DEF Init, PlaceInv
<1>3. ParseInv
  <2>1. pc = "parse" /\ i = 1 /\ configs = <<>>
    BY DEF Init
  <2>2. DOMAIN configs = {} /\ 1 .. i - 1 = {}
    BY <2>1
  <2>3. configs = [k \in 1 .. i - 1 |-> Parsed(k)]
    BY <2>1, <2>2
  <2> QED
    BY <2>1, <2>2, <2>3 DEF ParseInv, Begun
<1>4. DiskInv
  BY DEF Init, DiskInv, Prepared
<1>5. RequestInv
  BY DEF Init, RequestInv
<1> QED
  BY <1>1, <1>2, <1>3, <1>4, <1>5 DEF IInv

\* Where neither the input nor the jobs change, what was parsed stays.
LEMMA ParseInvKept ==
  ASSUME IInv, UNCHANGED <<input, configs>>,
         pc' # "parse", pc' = "refused" => ~(i' \in Jobs), Begun' => Begun
  PROVE  InputInv' /\ ParseInv'
<1>1. UNCHANGED <<format, texts, engine_override, direct_override, configs>>
  BY DEF input
<1>2. InputInv'
  BY <1>1 DEF IInv, InputInv
<1>3. Jobs' = Jobs /\ \A k : Parsed(k)' = Parsed(k)
  BY <1>1 DEF Jobs, Parsed
<1>4. ParseInv
  BY DEF IInv
<1>5. /\ DOMAIN configs' \subseteq Jobs'
      /\ \A k \in DOMAIN configs' : /\ ~ParseThrows(format', texts'[k])
                                    /\ SameJob(configs'[k], Parsed(k)')
  BY <1>1, <1>3, <1>4 DEF ParseInv
<1>6. Begun' => /\ DOMAIN configs' = Jobs' /\ Jobs' # {}
                /\ ValidateAll(configs')
                /\ \A k \in Jobs' : OverridesApplied(k)'
  BY <1>1, <1>3, <1>4 DEF ParseInv, OverridesApplied
<1>7. ParseInv'
  BY <1>3, <1>5, <1>6 DEF ParseInv
<1> QED
  BY <1>2, <1>7

\* One more row was parsed, or main refuses the file.
LEMMA ParseRowStep == IInv /\ ParseRow => IInv'
<1> SUFFICES ASSUME IInv, ParseRow PROVE IInv'
  OBVIOUS
<1>1. /\ pc = "parse" /\ i \in Jobs
      /\ UNCHANGED <<format, texts, engine_override, direct_override,
                     disk, cursor, request>>
  BY DEF ParseRow, input
<1>2. InputInv /\ InputInv' /\ ParseInv /\ PlaceInv /\ RequestInv
  BY <1>1 DEF IInv, InputInv
<1>3. Len(texts) \in Nat /\ Jobs = 1 .. Len(texts) /\ i \in Nat \ {0}
  BY <1>1, <1>2, JobsAreNumbered DEF PlaceInv
<1>4. Jobs' = Jobs /\ \A k : Parsed(k)' = Parsed(k)
  BY <1>1 DEF Jobs, Parsed
<1>5. configs = [k \in 1 .. i - 1 |-> Parsed(k)]
  BY <1>1, <1>2 DEF ParseInv
<1>6. CASE ParseThrows(format, texts[i])
  <2>1. pc' = "refused" /\ i' = i /\ configs' = configs
    BY <1>6 DEF ParseRow
  <2>2. PlaceInv'
    BY <1>1, <1>2, <2>1 DEF PlaceInv
  <2>3. ParseInv'
    BY <1>1, <1>2, <1>4, <1>6, <2>1 DEF ParseInv, Begun
  <2>4. DiskInv'
    BY <2>1 DEF DiskInv, Prepared
  <2>5. RequestInv'
    BY <1>1, <1>2, <1>4, <2>1 DEF RequestInv
  <2> QED
    BY <1>2, <2>2, <2>3, <2>4, <2>5 DEF IInv
<1>7. CASE ~ParseThrows(format, texts[i])
  <2>1. /\ pc' = "parse" /\ i' = i + 1
        /\ configs' = Append(configs, Parsed(i))
    BY <1>1, <1>7 DEF ParseRow, Parsed
  <2>2. PlaceInv'
    BY <1>1, <1>2, <1>3, <2>1 DEF PlaceInv
  <2>3. configs' = [k \in 1 .. i |-> Parsed(k)]
    <3> DEFINE S == {Parsed(k) : k \in 1 .. i}
    <3>1. PICK n \in Nat : n = i - 1
      BY <1>3
    <3>2. i = n + 1 /\ configs = [k \in 1 .. n |-> Parsed(k)]
      BY <1>3, <1>5, <3>1
    <3>3. configs \in [1 .. n -> S] /\ Parsed(i) \in S
      BY <1>3, <3>2
    <3> HIDE DEF S
    <3>4. configs \in Seq(S) /\ Len(configs) = n
      BY <3>2, <3>3
    <3>5. PICK e \in S : e = Parsed(i)
      BY <3>3
    <3>6. PICK c : c = Append(configs, e)
      OBVIOUS
    <3>7. /\ c \in Seq(S) /\ Len(c) = n + 1
          /\ \A k \in 1 .. n : c[k] = configs[k]
          /\ c[n + 1] = e
      BY <3>4, <3>5, <3>6, AppendProperties
    <3>8. c \in [1 .. n + 1 -> S]
      BY <3>7
    <3>9. \A k \in 1 .. n + 1 : c[k] = Parsed(k)
      <4> SUFFICES ASSUME NEW k \in 1 .. n + 1 PROVE c[k] = Parsed(k)
        OBVIOUS
      <4>1. k = n + 1 \/ k \in 1 .. n
        OBVIOUS
      <4>2. k \in 1 .. n => c[k] = Parsed(k)
        BY <3>2, <3>7
      <4> QED
        BY <4>1, <4>2, <3>2, <3>5, <3>7
    <3>10. c = [k \in 1 .. n + 1 |-> Parsed(k)]
      BY <3>8, <3>9
    <3> QED
      BY <3>10, <3>2, <3>5, <3>6, <2>1
  <2>4. \A k \in 1 .. i : k \in 1 .. i - 1 \/ k = i
    BY <1>3
  <2>5. \A k \in 1 .. i : ~ParseThrows(format, texts[k])
    BY <1>2, <1>5, <1>7, <2>4 DEF ParseInv
  <2>6. ParseInv'
    <3>1. configs' = [k \in 1 .. i' - 1 |-> Parsed(k)']
      BY <1>3, <1>4, <2>1, <2>3
    <3>2. DOMAIN configs' = 1 .. i /\ 1 .. i \subseteq Jobs'
      BY <1>1, <1>3, <1>4, <2>3
    <3>3. \A k \in DOMAIN configs' : /\ ~ParseThrows(format', texts'[k])
                                     /\ SameJob(configs'[k], Parsed(k)')
      BY <1>1, <1>4, <2>3, <2>5, <3>2 DEF SameJob
    <3> QED
      BY <2>1, <3>1, <3>2, <3>3 DEF ParseInv, Begun
  <2>7. DiskInv'
    BY <2>1 DEF DiskInv, Prepared
  <2>8. RequestInv'
    BY <1>1, <1>2, <1>4, <2>1 DEF RequestInv
  <2> QED
    BY <1>2, <2>2, <2>6, <2>7, <2>8 DEF IInv
<1> QED
  BY <1>6, <1>7

\* main applies the overrides to every job and validates them.
LEMMA ValidateStep == IInv /\ OverrideAndValidate => IInv'
<1> SUFFICES ASSUME IInv, OverrideAndValidate PROVE IInv'
  OBVIOUS
<1>1. /\ pc = "parse" /\ i \notin Jobs
      /\ configs' = [k \in DOMAIN configs |-> Overridden(k)]
      /\ UNCHANGED <<format, texts, engine_override, direct_override,
                     cursor, request>>
  BY DEF OverrideAndValidate, input
<1>2. InputInv /\ InputInv' /\ ParseInv /\ PlaceInv /\ RequestInv
  BY <1>1 DEF IInv, InputInv
<1>3. /\ Len(texts) \in Nat /\ Jobs = 1 .. Len(texts)
      /\ i = Len(texts) + 1
  BY <1>1, <1>2, JobsAreNumbered DEF PlaceInv
<1>4. Jobs' = Jobs /\ \A k : Parsed(k)' = Parsed(k)
  BY <1>1 DEF Jobs, Parsed
<1>5. configs = [k \in Jobs |-> Parsed(k)]
  <2>1. 1 .. i - 1 = Jobs
    BY <1>3
  <2> QED
    BY <1>1, <1>2, <2>1 DEF ParseInv
<1>6. DOMAIN configs' = Jobs
  BY <1>1, <1>5
<1>7. ASSUME NEW k \in Jobs
      PROVE  /\ ~ParseThrows(format, texts[k])
             /\ SameJob(configs'[k], Parsed(k))
             /\ OverridesApplied(k)'
  <2>1. configs[k] = ParseJob(format, texts[k])
    BY <1>5 DEF Parsed
  <2>2. configs'[k] = Overridden(k)
    BY <1>1, <1>5
  <2>3. /\ SameJob(configs'[k], configs[k])
        /\ configs'[k].engine = OrElse(engine_override, configs[k].engine)
        /\ configs'[k].direct = OrElse(direct_override, configs[k].direct)
    BY <2>1, <2>2, OverriddenFields
  <2>4. ~ParseThrows(format, texts[k])
    BY <1>2, <1>5 DEF ParseInv
  <2> QED
    BY <1>1, <1>4, <2>1, <2>3, <2>4 DEF Parsed, OverridesApplied
<1>8. RequestInv' \/ pc' = "run"
  BY <1>1, <1>2, <1>4 DEF RequestInv
<1>9. CASE ValidateAll(configs')
  <2>1. pc' = "prepare" /\ i' = 1 /\ disk' = [f \in Files' |-> 0]
    BY <1>9 DEF OverrideAndValidate
  <2>2. PlaceInv'
    BY <1>1, <1>3, <2>1 DEF PlaceInv
  <2>3. ParseInv'
    <3>1. Jobs # {}
      <4>1. configs' # <<>>
        BY <1>9 DEF ValidateAll
      <4>2. configs' = [k \in Jobs |-> Overridden(k)]
        BY <1>1, <1>5
      <4> QED
        BY <4>1, <4>2
    <3> QED
      BY <1>1, <1>4, <1>6, <1>7, <1>9, <2>1, <3>1 DEF ParseInv, Begun
  <2>4. DiskInv'
    <3>1. DOMAIN disk' = Files' /\ \A f \in Files' : disk'[f] \in Nat
      BY <2>1
    <3>2. \A k \in Jobs' : ~(k < i')
      BY <1>3, <1>4, <2>1
    <3> QED
      BY <2>1, <3>1, <3>2 DEF DiskInv
  <2> QED
    BY <1>2, <1>8, <2>1, <2>2, <2>3, <2>4 DEF IInv
<1>10. CASE ~ValidateAll(configs')
  <2>1. pc' = "refused" /\ i' = i
    BY <1>10 DEF OverrideAndValidate
  <2>2. PlaceInv'
    BY <1>1, <1>2, <2>1 DEF PlaceInv
  <2>3. ParseInv'
    BY <1>1, <1>4, <1>6, <1>7, <2>1 DEF ParseInv, Begun
  <2>4. DiskInv'
    BY <2>1 DEF DiskInv, Prepared
  <2> QED
    BY <1>2, <1>8, <2>1, <2>2, <2>3, <2>4 DEF IInv
<1> QED
  BY <1>9, <1>10

-----------------------------------------------------------------------------
(***************************************************************************)
(* Filling the files and constructing the workers.                         *)
(***************************************************************************)

\* The larger of two numbers.
LEMMA MaxOfTwo ==
  ASSUME NEW a \in Nat, NEW b \in Nat
  PROVE  Max({a, b}) \in Nat /\ Max({a, b}) >= a /\ Max({a, b}) >= b
<1>1. \E x \in {a, b} : \A y \in {a, b} : x >= y
  <2>1. a >= b \/ b >= a
    OBVIOUS
  <2> QED
    BY <2>1
<1>2. /\ Max({a, b}) \in {a, b}
      /\ \A y \in {a, b} : Max({a, b}) >= y
  BY <1>1 DEF Max
<1> QED
  BY <1>2

\* The smaller of two numbers, where it is known.
LEMMA MinOfTwo ==
  ASSUME NEW a \in Nat, NEW b \in Nat, a <= b
  PROVE  Min({a, b}) = a
<1>1. \A y \in {a, b} : a <= y
  OBVIOUS
<1>2. /\ Min({a, b}) \in {a, b}
      /\ \A y \in {a, b} : Min({a, b}) <= y
  BY <1>1 DEF Min
<1> QED
  BY <1>2

\* An offset below off_t's limit is what it is.
LEMMA OffsetsFit ==
  ASSUME NEW n \in Nat
  PROVE  /\ n < SizeMod \div 2 => ToOff(n) = n
         /\ n <= SizeMax /\ ToOff(n) > 0 => n < SizeMod \div 2
<1>1. SizeMod \in Nat /\ SizeMod \div 2 \in Nat /\ SizeMax < SizeMod
  BY Words
<1> QED
  BY <1>1, Words DEF ToOff

\* A file grows to what a job needs, and no job that it held before loses it.
LEMMA PrecreateStep == IInv /\ PrecreateFile => IInv'
<1> SUFFICES ASSUME IInv, PrecreateFile PROVE IInv'
  OBVIOUS
<1>1. /\ pc = "prepare" /\ pc' = "prepare" /\ i \in Jobs /\ i' = i + 1
      /\ ToOff(configs[i].file_size) > 0
      /\ disk' = [disk EXCEPT ![configs[i].filename] =
                    FilledLength(configs[i])]
      /\ UNCHANGED <<input, configs, cursor, request>>
  BY DEF PrecreateFile
<1>2. InputInv' /\ ParseInv'
  BY <1>1, ParseInvKept DEF Begun
<1>3. InputInv /\ ParseInv /\ PlaceInv /\ DiskInv /\ RequestInv /\ Begun
  BY <1>1 DEF IInv, Begun
<1>4. Len(texts) \in Nat /\ Jobs = 1 .. Len(texts) /\ texts' = texts
  BY <1>1, <1>3, JobsAreNumbered DEF input
<1>5. PlaceInv'
  BY <1>1, <1>3, <1>4 DEF PlaceInv
<1>6. PICK f \in Files : f = configs[i].filename
  BY <1>1, <1>3 DEF Files, ParseInv
<1>7. PICK s \in Nat : s = configs[i].file_size
  BY <1>1, <1>3, ValidJob
<1>8. s < SizeMod \div 2
  <2>1. s <= SizeMax
    BY <1>1, <1>3, <1>7, ValidJob
  <2> QED
    BY <1>1, <1>7, <2>1, OffsetsFit
<1>9. DOMAIN disk = Files /\ \A g \in Files : disk[g] \in Nat
  BY <1>1, <1>3 DEF DiskInv, Prepared
<1>10. PICK d \in Nat : d = FilledLength(configs[i]) /\ d >= s /\ d >= disk[f]
  BY <1>6, <1>7, <1>9, MaxOfTwo DEF FilledLength
<1>11. /\ disk' = [disk EXCEPT ![f] = d] /\ Files' = Files
       /\ configs' = configs /\ Jobs' = Jobs
  BY <1>1, <1>4, <1>6, <1>10 DEF Files, Jobs
<1>12. DOMAIN disk' = Files' /\ \A g \in Files' : disk'[g] \in Nat
  BY <1>9, <1>11
<1>13. \A g \in Files : disk'[g] >= disk[g]
  BY <1>6, <1>9, <1>10, <1>11
<1>14. ASSUME NEW k \in Jobs, k < i' PROVE Holds(k)'
  <2>1. k < i \/ k = i
    BY <1>1, <1>4, <1>14
  <2>2. CASE k = i
    <3>1. disk'[f] = d
      BY <1>9, <1>11
    <3> QED
      BY <2>2, <3>1, <1>6, <1>7, <1>8, <1>10, <1>11 DEF Holds
  <2>3. CASE k < i
    <3>1. /\ configs[k].file_size < SizeMod \div 2
          /\ configs[k].file_size <= disk[configs[k].filename]
      BY <1>1, <1>3, <2>3 DEF DiskInv, Prepared, Holds
    <3>2. PICK g \in Files : g = configs[k].filename
      BY <1>3 DEF Files, ParseInv
    <3>3. configs[k].file_size \in Nat
      BY <1>3, ValidJob
    <3>4. configs[k].file_size <= disk'[g]
      BY <1>9, <1>11, <1>12, <1>13, <3>1, <3>2, <3>3
    <3> QED
      BY <1>11, <3>1, <3>2, <3>4 DEF Holds
  <2> QED
    BY <2>1, <2>2, <2>3
<1>15. DiskInv'
  BY <1>1, <1>11, <1>12, <1>14 DEF DiskInv
<1>16. RequestInv'
  BY <1>1, <1>3, <1>11 DEF RequestInv
<1> QED
  BY <1>2, <1>5, <1>15, <1>16 DEF IInv

\* Filling fails: the run is over.
LEMMA PrecreateFailsStep == IInv /\ PrecreateFails => IInv'
<1> SUFFICES ASSUME IInv, PrecreateFails PROVE IInv'
  OBVIOUS
<1>1. /\ pc = "prepare" /\ pc' = "failed"
      /\ UNCHANGED <<input, i, configs, disk, cursor, request>>
  BY DEF PrecreateFails
<1>2. InputInv' /\ ParseInv'
  BY <1>1, ParseInvKept DEF Begun
<1>3. UNCHANGED <<texts, i, cursor, request>>
  BY <1>1 DEF input
<1>4. PlaceInv' /\ DiskInv' /\ RequestInv'
  BY <1>1, <1>3 DEF IInv, PlaceInv, DiskInv, RequestInv, Prepared, Jobs
<1> QED
  BY <1>2, <1>4 DEF IInv

\* All files are filled.
LEMMA FilesReadyStep == IInv /\ FilesReady => IInv'
<1> SUFFICES ASSUME IInv, FilesReady PROVE IInv'
  OBVIOUS
<1>1. /\ pc = "prepare" /\ i \notin Jobs /\ pc' = "construct" /\ i' = 1
      /\ UNCHANGED <<input, configs, disk, cursor, request>>
  BY DEF FilesReady
<1>2. InputInv' /\ ParseInv'
  BY <1>1, ParseInvKept DEF Begun
<1>3. UNCHANGED <<texts, configs, disk, cursor, request>>
  BY <1>1 DEF input
<1>4. Len(texts) \in Nat /\ Jobs = 1 .. Len(texts) /\ i = Len(texts) + 1
  BY <1>1, JobsAreNumbered DEF IInv, PlaceInv
<1>5. Jobs' = Jobs /\ Files' = Files /\ \A k : Holds(k)' = Holds(k)
  BY <1>3 DEF Jobs, Files, Holds
<1>6. PlaceInv'
  BY <1>1, <1>3, <1>4 DEF PlaceInv
<1>7. DiskInv'
  <2>1. \A k \in Jobs : k < i
    BY <1>4
  <2>2. /\ DOMAIN disk = Files
        /\ \A f \in Files : disk[f] \in Nat
        /\ \A k \in Jobs : Holds(k)
    BY <1>1, <2>1 DEF IInv, DiskInv, Prepared
  <2> QED
    BY <1>1, <1>3, <1>5, <2>2 DEF DiskInv
<1>8. RequestInv'
  BY <1>1, <1>3, <1>5 DEF IInv, RequestInv
<1> QED
  BY <1>2, <1>6, <1>7, <1>8 DEF IInv

\* A worker is constructed, or its pool refuses.
LEMMA ConstructStep == IInv /\ ConstructWorker => IInv'
<1> SUFFICES ASSUME IInv, ConstructWorker PROVE IInv'
  OBVIOUS
<1>1. /\ pc = "construct" /\ i \in Jobs
      /\ pc' \in {"construct", "failed"} /\ i' \in {i, i + 1}
      /\ cursor' = cursor \/ cursor' = [cursor EXCEPT ![i] = 0]
      /\ UNCHANGED <<input, configs, disk, request>>
  BY DEF ConstructWorker
<1>2. InputInv' /\ ParseInv'
  BY <1>1, ParseInvKept DEF Begun
<1>3. UNCHANGED <<texts, configs, disk, request>>
  BY <1>1 DEF input
<1>4. Len(texts) \in Nat /\ Jobs = 1 .. Len(texts)
  BY JobsAreNumbered DEF IInv
<1>5. Jobs' = Jobs /\ Files' = Files /\ \A k : Holds(k)' = Holds(k)
  BY <1>3 DEF Jobs, Files, Holds
<1>6. PlaceInv'
  BY <1>1, <1>3, <1>4 DEF PlaceInv
<1>7. DiskInv'
  <2>1. /\ DOMAIN disk = Files
        /\ \A f \in Files : disk[f] \in Nat
        /\ \A k \in Jobs : Holds(k)
    BY <1>1 DEF IInv, DiskInv, Prepared
  <2> QED
    BY <1>1, <1>3, <1>5, <2>1 DEF DiskInv
<1>8. RequestInv'
  <2>1. /\ DOMAIN cursor = Jobs /\ DOMAIN request = Jobs
        /\ \A k \in Jobs : cursor[k] = 0 /\ request[k] = NoRequest
    BY <1>1 DEF IInv, RequestInv
  <2>2. DOMAIN cursor' = Jobs /\ \A k \in Jobs : cursor'[k] = 0
    BY <1>1, <2>1
  <2> QED
    BY <1>1, <1>3, <1>5, <2>1, <2>2 DEF RequestInv
<1> QED
  BY <1>2, <1>6, <1>7, <1>8 DEF IInv

\* The workers begin: every cursor is at the first block.
LEMMA WorkersReadyStep == IInv /\ WorkersReady => IInv'
<1> SUFFICES ASSUME IInv, WorkersReady PROVE IInv'
  OBVIOUS
<1>1. /\ pc = "construct" /\ pc' = "run"
      /\ UNCHANGED <<input, i, configs, disk, cursor, request>>
  BY DEF WorkersReady
<1>2. InputInv' /\ ParseInv'
  BY <1>1, ParseInvKept DEF Begun
<1>3. UNCHANGED <<texts, i, configs, disk, cursor, request>>
  BY <1>1 DEF input
<1>4. Jobs' = Jobs /\ Files' = Files /\ \A k : Holds(k)' = Holds(k)
  BY <1>3 DEF Jobs, Files, Holds
<1>5. PlaceInv'
  BY <1>1, <1>3 DEF IInv, PlaceInv
<1>6. DiskInv'
  <2>1. /\ DOMAIN disk = Files
        /\ \A f \in Files : disk[f] \in Nat
        /\ \A k \in Jobs : Holds(k)
    BY <1>1 DEF IInv, DiskInv, Prepared
  <2> QED
    BY <1>1, <1>3, <1>4, <2>1 DEF DiskInv
<1>7. RequestInv'
  <2>1. /\ DOMAIN cursor = Jobs /\ DOMAIN request = Jobs
        /\ \A k \in Jobs : cursor[k] = 0 /\ request[k] = NoRequest
    BY <1>1 DEF IInv, RequestInv
  <2>2. ASSUME NEW k \in Jobs PROVE Follows(k)'
    <3>1. PICK b \in Nat \ {0} : b = configs[k].block_size
      BY <1>1, ValidJob DEF Begun
    <3>2. b <= configs[k].file_size /\ 0 = 0 * b /\ 0 + b = b
      BY <1>1, <3>1, ValidJob DEF Begun
    <3>3. AtBlock(k, 0)'
      BY <1>3, <3>1, <3>2 DEF AtBlock
    <3> QED
      BY <1>3, <2>1, <3>3 DEF Follows
  <2> QED
    BY <1>1, <1>3, <1>4, <2>1, <2>2 DEF RequestInv
<1> QED
  BY <1>2, <1>5, <1>6, <1>7 DEF IInv

-----------------------------------------------------------------------------
(***************************************************************************)
(* The generators.                                                         *)
(***************************************************************************)

\* Next of a sequential generator goes to the next block, or to the first one
\* where no whole block is left; no sum wraps in a file whose size is an
\* off_t.  It is the same as to count modulo the whole blocks.
LEMMA NextBlock ==
  ASSUME NEW config, NEW offset \in Nat, NEW q \in Nat,
         config.block_size \in Nat \ {0}, config.file_size \in Nat,
         config.file_size < SizeMod \div 2,
         offset = q * config.block_size,
         offset + config.block_size <= config.file_size
  PROVE  LET b == config.block_size
             s == config.file_size
             next == NextSequential(config, offset)
         IN  /\ next \in Nat /\ next + b <= s
             /\ \E r \in Nat : next = r * b
             /\ next = (offset + b) % ((s \div b) * b)
<1>1. PICK b \in Nat \ {0} : b = config.block_size
  OBVIOUS
<1>2. PICK s \in Nat : s = config.file_size
  OBVIOUS
<1>3. PICK m \in Nat \ {0} : m = SizeMod
  BY Words
<1>4. 2 * s < m
  BY <1>2, <1>3
<1>5. PICK t \in Nat : t = offset + b
  BY <1>1
<1>6. t <= s /\ t = (q + 1) * b /\ q + 1 \in Nat
  BY <1>1, <1>2, <1>5
<1>7. t % m = t
  <2>1. t < m
    BY <1>4, <1>6
  <2> QED
    BY <2>1, RemainderBelow
<1>8. (t + b) % m = t + b
  <2>1. b <= s
    BY <1>1, <1>2
  <2>2. t + b \in Nat /\ t + b < m
    BY <1>4, <1>6, <2>1
  <2> QED
    BY <2>2, RemainderBelow
<1>9. NextSequential(config, offset) = IF t + b > s THEN 0 ELSE t
  BY <1>1, <1>2, <1>3, <1>5, <1>7, <1>8 DEF NextSequential
<1>10. PICK n \in Nat : n = s \div b /\ n * b <= s /\ s < n * b + b
  BY RoundedDown
<1>11. n * b \in Nat
  BY <1>10, Products
<1>12. CASE t + b > s
  <2>1. (q + 2) * b > s /\ (q + 1) * b <= s
    BY <1>6, <1>12
  <2>2. q + 1 <= n /\ ~(q + 2 <= n)
    <3>1. q + 1 <= s \div b
      BY <1>6, QuotientBounds
    <3>2. ~(q + 2 <= s \div b)
      <4>1. PICK u \in Nat : u = q + 2
        OBVIOUS
      <4>2. ~(u * b <= s)
        BY <2>1, <4>1
      <4> QED
        BY <4>1, <4>2, QuotientBounds
    <3> QED
      BY <1>10, <3>1, <3>2
  <2>3. n = q + 1
    BY <2>2
  <2>4. t = n * b /\ n * b > 0
    BY <1>6, <2>3, Products
  <2>5. t % (n * b) = 0
    <3>1. PICK p \in Nat \ {0} : p = n * b
      BY <1>11, <2>4
    <3>2. p % p = 0
      OBVIOUS
    <3> QED
      BY <2>4, <3>1, <3>2
  <2>6. NextSequential(config, offset) = 0
    BY <1>9, <1>12
  <2>7. 0 + b <= s /\ 0 = 0 * b
    BY <1>1, <1>2
  <2> QED
    BY <2>5, <2>6, <2>7, <1>1, <1>2, <1>5, <1>10
<1>13. CASE ~(t + b > s)
  <2>1. t + b <= s /\ (q + 2) * b <= s
    BY <1>6, <1>13
  <2>2. q + 2 <= n
    <3>1. q + 2 <= s \div b
      <4>1. PICK u \in Nat : u = q + 2
        OBVIOUS
      <4>2. u * b <= s
        BY <2>1, <4>1
      <4> QED
        BY <4>1, <4>2, QuotientBounds
    <3> QED
      BY <1>10, <3>1
  <2>3. (q + 2) * b <= n * b
    BY <2>2
  <2>4. t < n * b
    BY <1>6, <2>3
  <2>5. t % (n * b) = t
    BY <1>11, <2>4, RemainderBelow
  <2>6. NextSequential(config, offset) = t
    BY <1>9, <1>13
  <2> QED
    BY <2>1, <2>5, <2>6, <1>1, <1>2, <1>5, <1>6, <1>10
<1> QED
  BY <1>12, <1>13

\* Next of a random generator is aligned, and the block is in the file.
LEMMA RandomInFile ==
  ASSUME NEW config, NEW offset \in RandomOffsets(config),
         config.block_size \in Nat, config.file_size \in Nat,
         config.alignment \in Nat \ {0}
  PROVE  /\ offset \in Nat /\ offset % config.alignment = 0
         /\ offset + config.block_size <= config.file_size
<1>1. PICK a \in Nat \ {0} : a = config.alignment
  OBVIOUS
<1>2. PICK raw \in 0 .. config.file_size - config.block_size :
        offset = (raw \div a) * a
  BY <1>1 DEF RandomOffsets
<1>3. raw \in Nat /\ raw + config.block_size <= config.file_size
  BY <1>2
<1>4. raw \div a \in Nat /\ (raw \div a) * a \in Nat /\ (raw \div a) * a <= raw
  BY <1>3, RoundedDown
<1>5. PICK o \in Nat : o = offset /\ o <= raw
  BY <1>2, <1>4
<1>6. o % a = 0
  BY <1>2, <1>4, <1>5, Multiples
<1> QED
  BY <1>1, <1>3, <1>5, <1>6

\* What every job of a run has: the facts the generators need.
LEMMA RunningJob ==
  ASSUME IInv, pc = "run", NEW k \in Jobs
  PROVE  /\ Holds(k) /\ Follows(k) /\ (request[k] # NoRequest => InFile(k))
         /\ Begun /\ DOMAIN cursor = Jobs /\ DOMAIN request = Jobs
BY DEF IInv, DiskInv, RequestInv, Prepared, Begun

\* The offset a sequential job asks for is its cursor.
LEMMA CursorIsOffset ==
  ASSUME IInv, pc = "run", NEW k \in Jobs, Sequential(k)
  PROVE  ToOff(cursor[k]) = cursor[k] /\ cursor[k] \in Nat
<1>1. /\ cursor[k] \in Nat
      /\ cursor[k] + configs[k].block_size <= configs[k].file_size
  BY RunningJob DEF Follows, AtBlock
<1>2. /\ configs[k].block_size \in Nat /\ configs[k].file_size \in Nat
      /\ configs[k].file_size < SizeMod \div 2
  BY RunningJob, ValidJob DEF Holds
<1>3. cursor[k] < SizeMod \div 2
  <2>1. SizeMod \div 2 \in Nat
    BY Words
  <2> QED
    BY <1>1, <1>2, <2>1
<1> QED
  BY <1>1, <1>3, OffsetsFit

\* A block of a sequential job is aligned, and NextSequential leads to another.
LEMMA BlocksAreLegal ==
  ASSUME IInv, pc = "run", NEW k \in Jobs, NEW offset, AtBlock(k, offset)
  PROVE  /\ offset \in Nat /\ offset % configs[k].alignment = 0
         /\ AtBlock(k, NextSequential(configs[k], offset))
         /\ NextSequential(configs[k], offset)
              = (offset + configs[k].block_size)
                  % ((configs[k].file_size \div configs[k].block_size)
                       * configs[k].block_size)
<1>1. /\ Begun /\ configs[k].file_size < SizeMod \div 2
  BY RunningJob DEF Holds
<1>2. PICK b \in Nat \ {0} : b = configs[k].block_size
  BY <1>1, ValidJob
<1>3. PICK a \in Nat \ {0} : a = configs[k].alignment
  BY <1>1, ValidJob
<1>4. b % a = 0 /\ configs[k].file_size \in Nat
  BY <1>1, <1>2, <1>3, ValidJob
<1>5. PICK q \in Nat : offset = q * b
  BY <1>2 DEF AtBlock
<1>6. offset \in Nat /\ offset % a = 0
  BY <1>4, <1>5, MultipleOfMultiple
<1>7. offset + configs[k].block_size <= configs[k].file_size
  BY DEF AtBlock
<1>8. PICK c : c = configs[k]
  OBVIOUS
<1>9. /\ NextSequential(c, offset) \in Nat
      /\ NextSequential(c, offset) + b <= c.file_size
      /\ \E r \in Nat : NextSequential(c, offset) = r * b
      /\ NextSequential(c, offset) = (offset + b) % ((c.file_size \div b) * b)
  BY <1>1, <1>2, <1>4, <1>5, <1>6, <1>7, <1>8, NextBlock
<1>10. AtBlock(k, NextSequential(configs[k], offset))
  BY <1>2, <1>8, <1>9 DEF AtBlock
<1> QED
  BY <1>2, <1>3, <1>6, <1>8, <1>9, <1>10

\* A worker asks for its next request.
LEMMA RequestStep ==
  ASSUME IInv, NEW k \in Jobs, NextRequest(k)
  PROVE  /\ IInv' /\ pc = "run"
         /\ request' = [request EXCEPT ![k] = request'[k]]
         /\ request'[k].offset \in Nat
         /\ Sequential(k) => request'[k].offset = cursor[k]
<1>1. /\ pc = "run" /\ pc' = "run"
      /\ UNCHANGED <<format, texts, engine_override, direct_override>>
      /\ UNCHANGED <<i, configs, disk>>
  BY DEF NextRequest, input
<1>2. InputInv' /\ ParseInv'
  <2>1. UNCHANGED <<input, configs>>
    BY <1>1 DEF input
  <2> QED
    BY <1>1, <2>1, ParseInvKept DEF Begun
<1>3. /\ Jobs' = Jobs /\ Files' = Files /\ \A j : Holds(j)' = Holds(j)
      /\ \A j : Sequential(j)' = Sequential(j)
      /\ \A j, o : AtBlock(j, o)' = AtBlock(j, o)
  BY <1>1 DEF Jobs, Files, Holds, Sequential, AtBlock
<1>4. PlaceInv' /\ DiskInv'
  BY <1>1, <1>3 DEF IInv, PlaceInv, DiskInv, Prepared
<1>5. Begun /\ DOMAIN cursor = Jobs /\ DOMAIN request = Jobs
  BY <1>1, RunningJob
<1>6. /\ configs[k].block_size \in Nat /\ configs[k].file_size \in Nat
      /\ configs[k].alignment \in Nat \ {0}
      /\ configs[k].file_size < SizeMod \div 2
  BY <1>1, <1>5, ValidJob, RunningJob DEF Holds
<1>7. PICK d \in Directions(configs[k]) :
        IF Sequential(k)
        THEN /\ request' = [request EXCEPT ![k] =
                              [offset |-> ToOff(cursor[k]), direction |-> d]]
             /\ cursor' = [cursor EXCEPT ![k] = NextSequential(configs[k], @)]
        ELSE \E offset \in RandomOffsets(configs[k]) :
               /\ request' = [request EXCEPT ![k] =
                                [offset |-> ToOff(offset), direction |-> d]]
               /\ UNCHANGED cursor
  BY DEF NextRequest, Sequential
<1>8. \E offset \in Nat :
        /\ request' = [request EXCEPT ![k] =
                         [offset |-> offset, direction |-> d]]
        /\ offset % configs[k].alignment = 0
        /\ offset + configs[k].block_size <= configs[k].file_size
        /\ IF Sequential(k)
           THEN /\ offset = cursor[k]
                /\ cursor' = [cursor EXCEPT ![k] =
                                NextSequential(configs[k], offset)]
           ELSE cursor' = cursor
  <2>1. CASE Sequential(k)
    <3>1. ToOff(cursor[k]) = cursor[k] /\ cursor[k] \in Nat
      BY <1>1, <2>1, CursorIsOffset
    <3>2. AtBlock(k, cursor[k])
      BY <1>1, <2>1, RunningJob DEF Follows
    <3>3. /\ cursor[k] % configs[k].alignment = 0
          /\ cursor[k] + configs[k].block_size <= configs[k].file_size
      BY <1>1, <3>2, BlocksAreLegal DEF AtBlock
    <3>4. PICK o \in Nat : o = cursor[k]
      BY <3>1
    <3> QED
      BY <1>7, <2>1, <3>1, <3>3, <3>4
  <2>2. CASE ~Sequential(k)
    <3>1. PICK offset \in RandomOffsets(configs[k]) :
            /\ request' = [request EXCEPT ![k] =
                             [offset |-> ToOff(offset), direction |-> d]]
            /\ cursor' = cursor
      BY <1>7, <2>2
    <3>2. /\ offset \in Nat /\ offset % configs[k].alignment = 0
          /\ offset + configs[k].block_size <= configs[k].file_size
      BY <1>6, RandomInFile
    <3>3. offset < SizeMod \div 2
      <4>1. SizeMod \div 2 \in Nat
        BY Words
      <4> QED
        BY <1>6, <3>2, <4>1
    <3>4. ToOff(offset) = offset
      BY <3>2, <3>3, OffsetsFit
    <3> QED
      BY <2>2, <3>1, <3>2, <3>4
  <2> QED
    BY <2>1, <2>2
<1>9. PICK offset \in Nat :
        /\ request' = [request EXCEPT ![k] =
                         [offset |-> offset, direction |-> d]]
        /\ offset % configs[k].alignment = 0
        /\ offset + configs[k].block_size <= configs[k].file_size
        /\ IF Sequential(k)
           THEN /\ offset = cursor[k]
                /\ cursor' = [cursor EXCEPT ![k] =
                                NextSequential(configs[k], offset)]
           ELSE cursor' = cursor
  BY <1>8
<1>10. PICK r : r = [offset |-> offset, direction |-> d]
  OBVIOUS
<1>11. r.offset = offset /\ r.direction = d /\ r # NoRequest
  BY <1>10 DEF NoRequest
<1>12. /\ DOMAIN request' = Jobs /\ request'[k] = r
       /\ \A j \in Jobs : j # k => request'[j] = request[j]
       /\ request' = [request EXCEPT ![k] = request'[k]]
  BY <1>5, <1>9, <1>10
<1>13. /\ DOMAIN cursor' = Jobs
       /\ \A j \in Jobs : j # k => cursor'[j] = cursor[j]
  BY <1>5, <1>9
<1>14. InFile(k)'
  BY <1>1, <1>7, <1>9, <1>11, <1>12 DEF InFile
<1>15. Follows(k)'
  <2>1. CASE Sequential(k)
    <3>1. AtBlock(k, offset)
      BY <1>1, <1>9, <2>1, RunningJob DEF Follows
    <3>2. cursor'[k] = NextSequential(configs[k], offset)
      BY <1>5, <1>9, <2>1
    <3>3. AtBlock(k, cursor'[k])
      BY <1>1, <3>1, <3>2, BlocksAreLegal
    <3>4. AtBlock(k, cursor[k])' /\ AtBlock(k, request[k].offset)'
      BY <1>1, <1>11, <1>12, <3>1, <3>3 DEF AtBlock
    <3> QED
      BY <1>1, <1>11, <1>12, <3>2, <3>4 DEF Follows
  <2>2. CASE ~Sequential(k)
    BY <1>3, <2>2 DEF Follows
  <2> QED
    BY <2>1, <2>2
<1>16. ASSUME NEW j \in Jobs, j # k
       PROVE  Follows(j)' /\ (request'[j] # NoRequest => InFile(j)')
  <2>1. Follows(j) /\ (request[j] # NoRequest => InFile(j))
    BY <1>1, RunningJob
  <2>2. request'[j] = request[j] /\ cursor'[j] = cursor[j] /\ configs' = configs
    BY <1>1, <1>12, <1>13, <1>16
  <2>3. Follows(j)'
    BY <1>3, <2>1, <2>2 DEF Follows, AtBlock
  <2>4. InFile(j)' = InFile(j)
    BY <2>2 DEF InFile
  <2> QED
    BY <2>1, <2>2, <2>3, <2>4
<1>17. RequestInv'
  <2>1. \A j \in Jobs : Follows(j)' /\ (request'[j] # NoRequest => InFile(j)')
    BY <1>14, <1>15, <1>16
  <2> QED
    BY <1>1, <1>3, <1>12, <1>13, <2>1 DEF RequestInv
<1> QED
  BY <1>1, <1>2, <1>4, <1>9, <1>11, <1>12, <1>17 DEF IInv

-----------------------------------------------------------------------------
(***************************************************************************)
(* The theorems.                                                           *)
(***************************************************************************)

\* A step that changes nothing keeps everything.
LEMMA StutterStep == IInv /\ UNCHANGED vars => IInv'
<1> SUFFICES ASSUME IInv, UNCHANGED vars PROVE IInv'
  OBVIOUS
<1>1. UNCHANGED <<format, texts, engine_override, direct_override, pc, i,
                  configs, disk, cursor, request>>
  BY DEF vars, input
<1>2. /\ Jobs' = Jobs /\ Files' = Files
      /\ \A k : Parsed(k)' = Parsed(k)
      /\ \A k : Holds(k)' = Holds(k)
      /\ \A k : Follows(k)' = Follows(k)
      /\ \A k : InFile(k)' = InFile(k)
      /\ \A k : OverridesApplied(k)' = OverridesApplied(k)
  BY <1>1 DEF Jobs, Files, Parsed, Holds, Follows, InFile, OverridesApplied,
              Sequential, AtBlock
<1>3. InputInv' /\ PlaceInv'
  BY <1>1 DEF IInv, InputInv, PlaceInv
<1>4. ParseInv'
  BY <1>1, <1>2 DEF IInv, ParseInv, Begun
<1>5. DiskInv'
  BY <1>1, <1>2 DEF IInv, DiskInv, Prepared
<1>6. RequestInv'
  BY <1>1, <1>2 DEF IInv, RequestInv
<1> QED
  BY <1>3, <1>4, <1>5, <1>6 DEF IInv

\* Every step keeps the invariant.
LEMMA StepInvariant == IInv /\ [Next]_vars => IInv'
<1> SUFFICES ASSUME IInv, [Next]_vars PROVE IInv'
  OBVIOUS
<1>1. CASE ParseRow
  BY <1>1, ParseRowStep
<1>2. CASE OverrideAndValidate
  BY <1>2, ValidateStep
<1>3. CASE PrecreateFile
  BY <1>3, PrecreateStep
<1>4. CASE PrecreateFails
  BY <1>4, PrecreateFailsStep
<1>5. CASE FilesReady
  BY <1>5, FilesReadyStep
<1>6. CASE ConstructWorker
  BY <1>6, ConstructStep
<1>7. CASE WorkersReady
  BY <1>7, WorkersReadyStep
<1>8. CASE \E k \in Jobs : NextRequest(k)
  BY <1>8, RequestStep
<1>9. CASE Ended
  BY <1>9, StutterStep DEF Ended
<1>10. CASE UNCHANGED vars
  BY <1>10, StutterStep
<1> QED
  BY <1>1, <1>2, <1>3, <1>4, <1>5, <1>6, <1>7, <1>8, <1>9, <1>10 DEF Next

\* The jobs are what their texts say, the files hold them, and every cursor is
\* at a block, in every state from the parser to the last request.
THEOREM Invariance == Spec => []IInv
<1>1. Init => IInv
  BY InitInvariant
<1>2. IInv /\ [Next]_vars => IInv'
  BY StepInvariant
<1> QED
  BY <1>1, <1>2, PTL DEF Spec

\* aligned_buffer.cpp:13, buffer_pool.cpp:56: for every job file, a job that
\* ConfigValidator accepted meets every condition of the constructors of pool,
\* buffer and generators, unless the pool's size overflows size_t.
THEOREM ValidatedJobsConstruct == Spec => []AcceptedJobsConstruct
<1>1. IInv => AcceptedJobsConstruct
  <2> SUFFICES ASSUME IInv, pc = "construct", i \in Jobs
               PROVE  /\ PoolConstructs(configs[i]) \/ PoolOverflows(configs[i])
                      /\ configs[i].block_size <= configs[i].file_size
    BY DEF AcceptedJobsConstruct
  <2>1. Begun
    BY DEF Begun
  <2>2. PICK b \in Nat \ {0} : b = configs[i].block_size
    BY <2>1, ValidJob
  <2>3. PICK a \in Nat \ {0} : a = configs[i].alignment
    BY <2>1, ValidJob
  <2>4. b % a = 0 /\ b <= configs[i].file_size /\ IsPowerOf2(a)
    BY <2>1, <2>2, <2>3, ValidJob
  <2>5. PICK n \in Nat \ {0} : n = EffectiveIODepth(configs[i])
    BY <2>1, ValidJob DEF EffectiveIODepth
  <2>6. CASE n <= SizeMax \div b
    <3>1. n * b <= SizeMax
      BY <2>6, Words, QuotientBounds
    <3>2. n * b \in Nat /\ n * b > 0 /\ b * n = n * b
      BY Products
    <3>3. (b * n) % SizeMod = n * b
      <4>1. n * b < SizeMod
        BY <3>1, <3>2, Words
      <4> QED
        BY <3>2, <4>1, Words, RemainderBelow
    <3>4. (n * b) % a = 0
      BY <2>4, MultipleOfMultiple
    <3>5. ~PoolOverflows(configs[i])
      <4>1. SizeMax \div b \in Nat
        BY Words, RoundedDown
      <4> QED
        BY <2>2, <2>5, <2>6, <4>1 DEF PoolOverflows
    <3>6. PoolConstructs(configs[i])
      BY <2>2, <2>3, <2>4, <2>5, <3>2, <3>3, <3>4, <3>5 DEF PoolConstructs
    <3> QED
      BY <2>2, <2>4, <3>6
  <2>7. CASE ~(n <= SizeMax \div b)
    <3>1. SizeMax \div b \in Nat
      BY Words, RoundedDown
    <3>2. PoolOverflows(configs[i])
      BY <2>2, <2>5, <2>7, <3>1 DEF PoolOverflows
    <3> QED
      BY <2>2, <2>4, <3>2
  <2> QED
    BY <2>6, <2>7
<1> QED
  BY <1>1, Invariance, PTL

\* offset_generator.h:33: for every job file, every request is aligned, lies in
\* the job's size and in the file as it is on disk, whichever jobs share it,
\* and only writes where the job may.
THEOREM EveryRequestIsLegal == Spec => []RequestsLegal
<1>1. IInv => RequestsLegal
  <2> SUFFICES ASSUME IInv, NEW k \in Jobs, request[k] # NoRequest
               PROVE  LET c == configs[k]
                          r == request[k]
                      IN  /\ r.offset >= 0 /\ r.offset % c.alignment = 0
                          /\ r.offset + c.block_size
                               <= Min({c.file_size, disk[c.filename]})
                          /\ r.direction = "write" =>
                               /\ texts[k].rw \intersect {"read", "randread"} = {}
                               /\ c.rw_mode \in {"readwrite", "randrw"}
                                    => c.rwmixread < 100
    BY DEF RequestsLegal
  <2>1. pc = "run"
    BY DEF IInv, RequestInv
  <2>2. Begun /\ InFile(k) /\ Holds(k)
    BY <2>1, RunningJob
  <2>3. PICK s \in Nat : s = configs[k].file_size
    BY <2>2, ValidJob
  <2>4. PICK d \in Nat : d = disk[configs[k].filename]
    BY <2>1, <2>2 DEF IInv, ParseInv, DiskInv, Prepared, Files
  <2>5. Min({s, d}) = s
    BY <2>2, <2>3, <2>4, MinOfTwo DEF Holds
  <2>6. /\ request[k].offset \in Nat
        /\ request[k].offset % configs[k].alignment = 0
        /\ request[k].offset + configs[k].block_size <= s
    BY <2>2, <2>3 DEF InFile
  <2>7. ASSUME request[k].direction = "write"
        PROVE  /\ texts[k].rw \intersect {"read", "randread"} = {}
               /\ configs[k].rw_mode \in {"readwrite", "randrw"}
                    => configs[k].rwmixread < 100
    <3>1. "write" \in Directions(configs[k])
      BY <2>2, <2>7 DEF InFile
    <3>2. /\ configs[k].rw_mode \notin {"read", "randread"}
          /\ configs[k].rw_mode \in {"readwrite", "randrw"}
               => configs[k].rwmixread < 100
      BY <3>1 DEF Directions
    <3>3. texts[k].rw = {configs[k].rw_mode}
      <4>1. /\ IsText(texts[k]) /\ ~ParseThrows(format, texts[k])
            /\ configs[k].rw_mode = Parsed(k).rw_mode
            /\ format \in {"json", "csv"}
        BY <2>2, JobsAreNumbered DEF IInv, ParseInv, InputInv, SameJob
      <4>2. texts[k].rw = {OrElse(texts[k].rw, "")}
        BY <4>1, ParsedFields
      <4> QED
        BY <4>1, <4>2 DEF Parsed, ParseJob
    <3> QED
      BY <3>2, <3>3
  <2> QED
    BY <2>3, <2>4, <2>5, <2>6, <2>7
<1> QED
  BY <1>1, Invariance, PTL

\* For every job file, a sequential job visits every whole block of its size in
\* order and begins again.
THEOREM SequentialJobsSweep == Spec => SequentialSweep
<1> DEFINE Sweeps(k) ==
             LET c == configs[k]
                 blocks == c.file_size \div c.block_size
             IN  request'[k] # request[k] /\ c.access_pattern = "sequential" =>
                   request'[k].offset =
                     IF request[k] = NoRequest THEN 0
                     ELSE (request[k].offset + c.block_size)
                            % (blocks * c.block_size)
<1>1. ASSUME IInv, NEW j \in Jobs, NextRequest(j), NEW k \in Jobs
      PROVE  Sweeps(k)
  <2>1. /\ pc = "run"
        /\ request' = [request EXCEPT ![j] = request'[j]]
        /\ Sequential(j) => request'[j].offset = cursor[j]
    BY <1>1, RequestStep
  <2>2. CASE k # j
    <3>1. request'[k] = request[k]
      <4>1. DOMAIN request = Jobs
        BY <1>1, <2>1, RunningJob
      <4>2. PICK r : request' = [request EXCEPT ![j] = r]
        BY <2>1
      <4> QED
        BY <2>2, <4>1, <4>2
    <3> QED
      BY <3>1
  <2>3. CASE k = j
    <3> SUFFICES ASSUME Sequential(k)
                 PROVE  request'[k].offset =
                          IF request[k] = NoRequest THEN 0
                          ELSE (request[k].offset + configs[k].block_size)
                                 % ((configs[k].file_size
                                       \div configs[k].block_size)
                                      * configs[k].block_size)
      BY DEF Sequential
    <3>1. request'[k].offset = cursor[k]
      BY <2>1, <2>3
    <3>2. /\ request[k] = NoRequest => cursor[k] = 0
          /\ request[k] # NoRequest =>
               /\ AtBlock(k, request[k].offset)
               /\ cursor[k] = NextSequential(configs[k], request[k].offset)
      BY <1>1, <2>1, RunningJob DEF Follows
    <3>3. request[k] # NoRequest =>
            cursor[k] = (request[k].offset + configs[k].block_size)
                          % ((configs[k].file_size \div configs[k].block_size)
                               * configs[k].block_size)
      BY <1>1, <2>1, <3>2, BlocksAreLegal
    <3> QED
      BY <3>1, <3>2, <3>3
  <2> QED
    BY <2>2, <2>3
<1>2. ASSUME IInv, [Next]_vars, NEW k \in Jobs PROVE Sweeps(k)
  <2>1. CASE \E j \in Jobs : NextRequest(j)
    BY <1>1, <1>2, <2>1
  <2>2. CASE ~\E j \in Jobs : NextRequest(j)
    <3>1. request' = request
      BY <1>2, <2>2
         DEF Next, ParseRow, OverrideAndValidate, PrecreateFile,
             PrecreateFails, FilesReady, ConstructWorker, WorkersReady, Ended,
             vars
    <3> QED
      BY <3>1
  <2> QED
    BY <2>1, <2>2
<1>3. IInv /\ [Next]_vars => [\A k \in Jobs : Sweeps(k)]_vars
  BY <1>2
<1> QED
  BY <1>3, Invariance, PTL DEF Spec, SequentialSweep

\* A label names the one value that is asked for, or says that they differ.
LEMMA AgreedFits ==
  ASSUME NEW values, IsFiniteSet(values), values # {}
  PROVE  LabelFits(Agreed(values), values)
<1>1. Cardinality(values) \in Nat /\ Cardinality(values) # 0
  BY FS_CardinalityType, FS_EmptySet
<1>2. CASE Cardinality(values) = 1
  <2>1. PICK x : values = {x}
    BY <1>2, FS_Singleton
  <2>2. Agreed(values) = x
    BY <1>2, <2>1 DEF Agreed
  <2> QED
    BY <2>1, <2>2 DEF LabelFits
<1>3. CASE Cardinality(values) # 1
  BY <1>1, <1>3 DEF Agreed, LabelFits
<1> QED
  BY <1>2, <1>3

\* A set of at most four values is finite.
LEMMA FourAreFinite ==
  ASSUME NEW a, NEW b, NEW c, NEW d, NEW S, S \subseteq {a, b, c, d}
  PROVE  IsFiniteSet(S)
<1>1. IsFiniteSet({a})
  BY FS_Singleton
<1>2. IsFiniteSet({a} \union {b})
  BY <1>1, FS_AddElement
<1>3. IsFiniteSet(({a} \union {b}) \union {c})
  BY <1>2, FS_AddElement
<1>4. IsFiniteSet((({a} \union {b}) \union {c}) \union {d})
  BY <1>3, FS_AddElement
<1>5. (({a} \union {b}) \union {c}) \union {d} = {a, b, c, d}
  OBVIOUS
<1>6. IsFiniteSet({a, b, c, d})
  BY <1>4, <1>5
<1> QED
  BY <1>6, FS_Subset

\* The header's labels fit the jobs, once main has accepted them.
LEMMA LabelsFit ==
  ASSUME IInv, Begun
  PROVE  /\ LabelFits(EngineLabel, {c.engine : c \in Accepted})
         /\ LabelFits(DirectLabel, {OnOff(c.direct) : c \in Accepted})
<1> DEFINE E == {configs[k].engine : k \in DOMAIN configs}
           D == {OnOff(configs[k].direct) : k \in DOMAIN configs}
<1>1. /\ DOMAIN configs = Jobs /\ Jobs # {}
      /\ \A k \in Jobs : Validate(configs[k]) /\ OverridesApplied(k)
  BY DEF IInv, ParseInv, ValidateAll
<1>2. /\ {c.engine : c \in Accepted} = E
      /\ {OnOff(c.direct) : c \in Accepted} = D
  BY DEF Accepted
<1>3. E # {} /\ D # {}
  BY <1>1
<1>4. IsFiniteSet(E)
  <2>1. E \subseteq {"psync", "sync", "libaio", "io_uring"}
    BY <1>1 DEF Validate, KnownEngines
  <2> HIDE DEF E
  <2> QED
    BY <2>1, FourAreFinite
<1>5. IsFiniteSet(D)
  <2>1. D \subseteq {"ON", "OFF", "ON", "OFF"}
    BY DEF OnOff
  <2> HIDE DEF D
  <2> QED
    BY <2>1, FourAreFinite
<1>6. LabelFits(EngineLabel, E)
  <2>1. CASE engine_override = {}
    <3>1. EngineLabel = Agreed(E)
      BY <2>1 DEF EngineLabel, OrElse
    <3> HIDE DEF E
    <3> QED
      BY <1>3, <1>4, <3>1, AgreedFits
  <2>2. CASE engine_override # {}
    <3>1. PICK v : v = CHOOSE x \in engine_override : TRUE
      OBVIOUS
    <3>2. EngineLabel = v
      BY <2>2, <3>1 DEF EngineLabel, OrElse
    <3>3. \A k \in Jobs : configs[k].engine = v
      BY <1>1, <2>2, <3>1 DEF OverridesApplied, OrElse
    <3>4. E = {v}
      BY <1>1, <3>3
    <3> QED
      BY <3>2, <3>4 DEF LabelFits
  <2> QED
    BY <2>1, <2>2
<1>7. LabelFits(DirectLabel, D)
  <2>1. CASE direct_override = {}
    <3>1. DirectLabel = Agreed(D)
      BY <2>1 DEF DirectLabel
    <3> HIDE DEF D
    <3> QED
      BY <1>3, <1>5, <3>1, AgreedFits
  <2>2. CASE direct_override # {}
    <3>1. PICK v : v = CHOOSE x \in direct_override : TRUE
      OBVIOUS
    <3>2. DirectLabel = OnOff(v)
      BY <2>2, <3>1 DEF DirectLabel, OrElse
    <3>3. \A k \in Jobs : configs[k].direct = v
      BY <1>1, <2>2, <3>1 DEF OverridesApplied, OrElse
    <3>4. D = {OnOff(v)}
      BY <1>1, <3>3
    <3> QED
      BY <3>2, <3>4 DEF LabelFits
  <2> QED
    BY <2>1, <2>2
<1> QED
  BY <1>2, <1>6, <1>7

\* For every job file in either format, and every word size: each job has the
\* values its text means, defaults and overrides applied, no text that means
\* something is refused by a parser, and the header's labels fit the jobs.
THEOREM JobsAreAsWritten == Spec => []ConfigAsWritten
<1>1. IInv => ConfigAsWritten
  <2> SUFFICES ASSUME IInv PROVE ConfigAsWritten
    OBVIOUS
  <2>1. ASSUME NEW k \in DOMAIN configs PROVE Written(texts[k], configs[k])
    <3>1. /\ IsText(texts[k]) /\ ~ParseThrows(format, texts[k])
          /\ SameJob(configs[k], Parsed(k)) /\ format \in {"json", "csv"}
      BY JobsAreNumbered DEF IInv, ParseInv, InputInv
    <3>2. Written(texts[k], Parsed(k))
      BY <3>1, ParsedIsWritten DEF Parsed
    <3> QED
      BY <3>1, <3>2, SameIsWritten
  <2>2. ASSUME Begun, NEW k \in DOMAIN configs
        PROVE  /\ configs[k].engine = OrElse(engine_override,
                                             OrElse(texts[k].engine, ""))
               /\ configs[k].direct = OrElse(direct_override,
                                             OrElse(texts[k].direct, TRUE))
    <3>1. OverridesApplied(k)
      BY <2>2 DEF IInv, ParseInv
    <3> QED
      BY <3>1 DEF OverridesApplied, Parsed, ParseJob
  <2>3. ASSUME pc = "refused", i \in Jobs PROVE ~WellFormed(texts[i])
    <3>1. IsText(texts[i]) /\ ParseThrows(format, texts[i])
      BY <2>3, JobsAreNumbered DEF IInv, ParseInv
    <3> QED
      BY <3>1, WellFormedIsParsed
  <2>4. Begun => /\ LabelFits(EngineLabel, {c.engine : c \in Accepted})
                 /\ LabelFits(DirectLabel, {OnOff(c.direct) : c \in Accepted})
    BY LabelsFit
  <2> QED
    BY <2>1, <2>2, <2>3, <2>4 DEF ConfigAsWritten, Begun
<1> QED
  BY <1>1, Invariance, PTL

=============================================================================
