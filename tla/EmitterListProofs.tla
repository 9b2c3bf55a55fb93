------------------------- MODULE EmitterListProofs --------------------------
(***************************************************************************)
(* Theorems about three lists of emitters: the Wi-Fi list with the         *)
(* operator's enrolment on disk, through crashes and failed writes, the    *)
(* short-range list with its probable devices, through evictions, and the  *)
(* registry of a band, whatever the order of a cycle's detections.         *)
(*                                                                         *)
(* They hold for any addresses, limits, and numbers of captures, faults    *)
(* and runs.                                                               *)
(***************************************************************************)
EXTENDS WifiEnrolment, ShortRange, Registry, Iteration, SequenceTheorems, FiniteSetTheorems

(* The Wi-Fi list and its files *)

Reviewed == {"acknowledged", "approved", "disallowed"}
Contents == Policies \cup {"none", "corrupt"}
BaseFiles == {b \in [lines : Seq({"meta", "seen", "torn"}), flushed : Nat,
                     rewritten : {"no", "pending", "stopped"}] : b.flushed <= Len(b.lines)}
Commands == {CommandFor(k, p) : k \in WeKeys, p \in Reviewed}
Batches == {BatchOf(K) : K \in SUBSET WeKeys}

WeTyped ==
  /\ weBase \in [WeKeys -> BaseFiles]
  /\ weEnrol \in [WeKeys -> [now : Contents, may : SUBSET Contents]]
  /\ weAnswered \in [WeKeys -> SUBSET Policies]
  /\ weDevices \subseteq WeKeys /\ weError \in BOOLEAN
  /\ DOMAIN weStates \subseteq WeKeys
  /\ \A k \in DOMAIN weStates : weStates[k] \in Policies \cup {"corrupt"}
  /\ weJobs \in Seq(Commands \cup Batches) /\ weJob \in Commands \cup Batches \cup {NoJob}

\* What is flushed is enough: whatever part of the rest a stop leaves, the file loads.
FlushedLoads(b) ==
  b.lines # <<>> /\ b.lines[1] = "meta" /\ \E i \in 1..b.flushed : b.lines[i] = "seen"

\* The file loads, and will after a stop, unless it was rewritten and not yet flushed.
Kept(b) == Loads(b.lines) /\ (b.rewritten = "no" => FlushedLoads(b))

\* A file goes on from b to c: what it was good for it still is.
GoesOn(b, c) ==
  /\ c \in BaseFiles
  /\ Loads(b.lines) => Loads(c.lines)
  /\ Kept(b) => Kept(c)
  /\ b.lines # <<>> /\ b.lines[1] = "meta" => c.lines # <<>> /\ c.lines[1] = "meta"
  /\ c.rewritten = "stopped" <=> b.rewritten = "stopped"

\* What memory has of the files: without a storage error every listed device loads,
\* and a reviewed one always does.
MemoryTrue ==
  weAlive # "off" =>
    /\ ~weError => \A k \in WeKeys :
         /\ weBase[k].lines # <<>> => weBase[k].lines[1] = "meta"
         /\ k \in weDevices => weBase[k].lines # <<>>
         /\ k \in DOMAIN weStates => Loads(weBase[k].lines)
    /\ \A k \in DOMAIN weStates : weStates[k] # "unreviewed" => Loads(weBase[k].lines)

\* What the worker is at.
WorkTrue ==
  weAlive # "off" =>
    /\ weStep \in {"wait", "record", "check", "save", "replace", "confirm"}
    /\ weChanged \subseteq DOMAIN weStates
    /\ weStep = "record" => weJob \in Batches
    /\ weStep = "check" => weJob \in Commands
    /\ weStep \in {"save", "replace", "confirm"} =>
         \/ weJob \in Batches /\ weChanged # {}
         \/ /\ weJob \in Commands /\ weChanged = {}
            /\ KeyOf(weJob) \in DOMAIN weStates /\ Loads(weBase[KeyOf(weJob)].lines)
    /\ weStep \in {"replace", "confirm"} =>
         /\ NewPolicy # "corrupt"
         /\ weBase[Saving].flushed = Len(weBase[Saving].lines)
         /\ weBase[Saving].rewritten # "pending"
    /\ weStep = "confirm" => weEnrol[Saving].now = NewPolicy /\ NewPolicy \in weEnrol[Saving].may

\* A device that may be found reviewed, or was promised to be.
Promised(k) == weEnrol[k].may \cap Reviewed # {} \/ "unreviewed" \notin weAnswered[k]

PromisesKept ==
  \A k \in WeKeys :
    weBase[k].rewritten # "stopped" /\ Promised(k) =>
      Kept(weBase[k]) /\ (weAlive # "off" => k \in DOMAIN weStates)

\* The command of which the new file is in place but not confirmed.
UnderWay(k, p) ==
  /\ weAlive # "off" /\ weStep = "confirm" /\ weJob \in Commands
  /\ k = KeyOf(weJob) /\ p = weJob.policy

\* What a restart may find of a device was answered, or is about to be.
FileShows(p) == IF p = "none" THEN "unreviewed" ELSE p
FilesAnswered ==
  \A k \in WeKeys :
    /\ weEnrol[k].now \in weEnrol[k].may
    /\ weBase[k].rewritten # "stopped" =>
         \A p \in weEnrol[k].may :
           FileShows(p) \in weAnswered[k] \cup {"corrupt"} \/ UnderWay(k, p)

WeInv == WeTyped /\ MemoryTrue /\ WorkTrue /\ PromisesKept /\ FilesAnswered /\ WeAnswersHold

-----------------------------------------------------------------------------
Whole == {"meta", "seen", "torn"}

\* A file is a record of these three.
LEMMA BaseIs ==
  \A b \in BaseFiles : /\ b.lines \in Seq(Whole) /\ b.flushed \in Nat
                       /\ b.rewritten \in {"no", "pending", "stopped"}
                       /\ b.flushed <= Len(b.lines)
  BY DEF BaseFiles, Whole

\* Whatever part of a file a stop leaves: what was flushed is in it.
LEMMA SurvivorsLoad ==
  ASSUME NEW b \in BaseFiles, NEW c \in Survivors(b)
  PROVE  /\ c \in BaseFiles
         /\ c.rewritten \in {"no", "stopped"} /\ (c.rewritten = "no" <=> b.rewritten = "no")
         /\ FlushedLoads(b) => Kept(c)
<1>1. /\ b.lines \in Seq(Whole) /\ b.flushed \in Nat /\ b.flushed <= Len(b.lines)
      /\ Len(b.lines) \in Nat
  BY BaseIs, LenProperties
<1>2. PICK n \in b.flushed..Len(b.lines) :
        \/ c.lines = SubSeq(b.lines, 1, n)
        \/ c.lines = Append(SubSeq(b.lines, 1, n), "torn")
  BY DEF Survivors
<1>3. /\ c = [lines |-> c.lines, flushed |-> Len(c.lines), rewritten |-> c.rewritten]
      /\ c.rewritten = IF b.rewritten = "no" THEN "no" ELSE "stopped"
  BY DEF Survivors
<1> DEFINE part == SubSeq(b.lines, 1, n)
<1>4. n \in Nat /\ n <= Len(b.lines)
  BY <1>1
<1>5. part \in Seq(Whole) /\ Len(part) = n /\ \A i \in 1..n : part[i] = b.lines[i]
  BY <1>1, <1>4, SubSeqProperties
<1> HIDE DEF part
<1>6. /\ c.lines \in Seq(Whole) /\ Len(c.lines) \in Nat /\ n <= Len(c.lines)
      /\ \A i \in 1..n : c.lines[i] = part[i]
  <2>1. CASE c.lines = part
    BY <1>4, <1>5, <2>1
  <2>2. CASE c.lines = Append(part, "torn")
    <3>1. "torn" \in Whole
      BY DEF Whole
    <3> QED BY <1>4, <1>5, <2>2, <3>1, AppendProperties
  <2> QED BY <1>2, <2>1, <2>2 DEF part
<1>7. c.rewritten \in {"no", "pending", "stopped"}
  BY ONLY <1>3
<1>8. c \in BaseFiles
  BY ONLY <1>3, <1>6, <1>7 DEF BaseFiles, Whole
<1>9. ASSUME FlushedLoads(b) PROVE Kept(c)
  <2>1. PICK m \in 1..b.flushed : b.lines[1] = "meta" /\ b.lines[m] = "seen"
    BY <1>9 DEF FlushedLoads
  <2>2. m \in 1..n /\ 1 \in 1..n /\ m \in 1..Len(c.lines) /\ Len(c.lines) # 0
    BY <1>1, <1>4, <1>6
  <2>3. c.lines[1] = "meta" /\ c.lines[m] = "seen" /\ c.lines # <<>>
    BY ONLY <1>5, <1>6, <2>1, <2>2
  <2>4. c.flushed = Len(c.lines) /\ DOMAIN c.lines = 1..Len(c.lines)
    BY <1>3, <1>6, LenProperties
  <2> QED BY ONLY <2>2, <2>3, <2>4 DEF Kept, Loads, FlushedLoads
<1> QED BY <1>3, <1>8, <1>9

\* A line is added to a file.
LEMMA LongerGoesOn ==
  ASSUME NEW b \in BaseFiles, NEW line \in Whole
  PROVE  /\ GoesOn(b, [b EXCEPT !.lines = Append(@, line)])
         /\ b.lines = <<>> => Append(b.lines, line)[1] = line
         /\ Append(b.lines, line) # <<>>
         /\ line = "seen" /\ b.lines # <<>> /\ b.lines[1] = "meta"
              => Loads(Append(b.lines, line))
<1> DEFINE longer == Append(b.lines, line)
           c == [b EXCEPT !.lines = longer]
<1>1. b.lines \in Seq(Whole) /\ b.flushed \in Nat /\ b.flushed <= Len(b.lines)
      /\ Len(b.lines) \in Nat /\ b.rewritten \in {"no", "pending", "stopped"}
  BY BaseIs, LenProperties
<1>2. /\ longer \in Seq(Whole) /\ Len(longer) = Len(b.lines) + 1
      /\ \A i \in 1..Len(b.lines) : longer[i] = b.lines[i]
      /\ longer[Len(b.lines) + 1] = line
  BY <1>1, AppendProperties
<1>3. /\ DOMAIN longer = 1..(Len(b.lines) + 1) /\ DOMAIN b.lines = 1..Len(b.lines)
      /\ longer # <<>>
  BY <1>1, <1>2, LenProperties, EmptySeq
<1>4. c.lines = longer /\ c.flushed = b.flushed /\ c.rewritten = b.rewritten
  BY DEF BaseFiles
<1>5. b.lines # <<>> => 1 \in 1..Len(b.lines)
  BY <1>1, EmptySeq
<1>6. b.lines = <<>> => Len(b.lines) = 0
  BY EmptySeq
<1> HIDE DEF longer
<1>7. c \in BaseFiles
  BY <1>1, <1>2 DEF BaseFiles, Whole
<1> HIDE DEF c
<1>8. Loads(b.lines) => Loads(longer)
  BY ONLY <1>1, <1>2, <1>3, <1>5 DEF Loads
<1>9. FlushedLoads(b) => FlushedLoads(c)
  <2> SUFFICES ASSUME FlushedLoads(b) PROVE FlushedLoads(c)
    OBVIOUS
  <2>1. PICK m \in 1..b.flushed : b.lines[m] = "seen"
    BY DEF FlushedLoads
  <2>2. m \in 1..Len(b.lines)
    BY <1>1
  <2>3. longer[m] = "seen" /\ longer[1] = "meta"
    BY <1>2, <1>5, <2>1, <2>2 DEF FlushedLoads
  <2> QED BY ONLY <1>3, <1>4, <2>1, <2>3 DEF FlushedLoads
<1>10. GoesOn(b, c)
  BY ONLY <1>2, <1>3, <1>4, <1>5, <1>7, <1>8, <1>9 DEF GoesOn, Kept
<1>11. line = "seen" /\ b.lines # <<>> /\ b.lines[1] = "meta" => Loads(longer)
  BY ONLY <1>1, <1>2, <1>3, <1>5 DEF Loads
<1>12. b.lines = <<>> => longer[1] = line
  BY ONLY <1>2, <1>6
<1> QED BY <1>3, <1>10, <1>11, <1>12 DEF longer, c

\* A file is what it was.
LEMMA GoesOnSelf == \A b \in BaseFiles : GoesOn(b, b)
  BY DEF GoesOn

\* A file goes on through two steps.
LEMMA GoesOnTwice ==
  ASSUME NEW a, NEW b, NEW c, GoesOn(a, b), GoesOn(b, c)
  PROVE  GoesOn(a, c)
  BY DEF GoesOn

\* A long file is rewritten.
LEMMA CompactedGoesOn ==
  ASSUME NEW b \in BaseFiles
  PROVE  GoesOn(b, Compacted(b)) /\ (Loads(b.lines) => Loads(Compacted(b).lines))
<1>1. CASE Len(b.lines) <= WeCompactAt
  BY <1>1, GoesOnSelf DEF Compacted
<1>2. CASE ~(Len(b.lines) <= WeCompactAt)
  <2> DEFINE c == Compacted(b)
             new == <<"meta", "seen">>
  <2>1. new \in Seq(Whole) /\ Len(new) = 2 /\ new[1] = "meta" /\ new[2] = "seen" /\ new # <<>>
    BY DEF Whole
  <2>2. DOMAIN new = 1..2
    OBVIOUS
  <2>3. /\ c = [lines |-> new, flushed |-> 0,
                rewritten |-> IF b.rewritten = "stopped" THEN "stopped" ELSE "pending"]
        /\ c.lines = new /\ c.flushed = 0 /\ c.rewritten \in {"pending", "stopped"}
        /\ c.rewritten = "stopped" <=> b.rewritten = "stopped"
    BY <1>2 DEF Compacted
  <2> HIDE DEF new, c
  <2>4. c \in BaseFiles
    <3>1. 0 \in Nat /\ 0 <= 2
      OBVIOUS
    <3> QED BY ONLY <2>1, <2>3, <3>1 DEF BaseFiles, Whole
  <2>5. Loads(new)
    <3>1. 2 \in 1..2
      OBVIOUS
    <3> QED BY ONLY <2>1, <2>2, <3>1 DEF Loads
  <2>6. GoesOn(b, c)
    BY ONLY <2>1, <2>3, <2>4, <2>5 DEF GoesOn, Kept
  <2> QED BY ONLY <2>3, <2>5, <2>6 DEF c
<1> QED BY <1>1, <1>2

\* The file with a line more, rewritten when it is long.
LEMMA RecordedGoesOn ==
  ASSUME NEW b \in BaseFiles, NEW c, c = Compacted([b EXCEPT !.lines = Append(@, "seen")])
  PROVE  GoesOn(b, c) /\ (b.lines # <<>> /\ b.lines[1] = "meta" => Loads(c.lines))
<1> DEFINE l == [b EXCEPT !.lines = Append(@, "seen")]
<1>1. "seen" \in Whole
  BY DEF Whole
<1>2. GoesOn(b, l) /\ (b.lines # <<>> /\ b.lines[1] = "meta" => Loads(Append(b.lines, "seen")))
  BY <1>1, LongerGoesOn
<1>3. l.lines = Append(b.lines, "seen")
  BY DEF BaseFiles
<1>4. l \in BaseFiles
  BY ONLY <1>2 DEF GoesOn
<1> HIDE DEF l
<1>5. GoesOn(l, Compacted(l)) /\ (Loads(l.lines) => Loads(Compacted(l).lines))
  BY ONLY <1>4, CompactedGoesOn
<1>6. c = Compacted(l)
  BY DEF l
<1>7. GoesOn(b, c)
  BY ONLY <1>2, <1>5, <1>6, GoesOnTwice
<1> QED BY ONLY <1>2, <1>3, <1>5, <1>6, <1>7

\* A file is flushed.
Flushed(b) ==
  [b EXCEPT !.flushed = Len(b.lines), !.rewritten = IF @ = "pending" THEN "no" ELSE @]

\* A flush is a write that goes on from the file, and leaves it on disk.
LEMMA FlushedGoesOn ==
  ASSUME NEW b \in BaseFiles
  PROVE  /\ GoesOn(b, Flushed(b)) /\ Flushed(b).flushed = Len(Flushed(b).lines)
         /\ Flushed(b).rewritten # "pending" /\ Flushed(b).lines = b.lines
<1> DEFINE c == Flushed(b)
<1>1. b.lines \in Seq(Whole) /\ b.rewritten \in {"no", "pending", "stopped"}
      /\ Len(b.lines) \in Nat /\ DOMAIN b.lines = 1..Len(b.lines)
  BY BaseIs, LenProperties
<1>2. c = [lines |-> b.lines, flushed |-> Len(b.lines),
           rewritten |-> IF b.rewritten = "pending" THEN "no" ELSE b.rewritten]
  <2>1. c = [b EXCEPT !.flushed = Len(b.lines),
                      !.rewritten = IF @ = "pending" THEN "no" ELSE @]
    BY DEF Flushed
  <2> HIDE DEF c
  <2> QED BY <2>1 DEF BaseFiles
<1> HIDE DEF c
<1>3. /\ c.lines = b.lines /\ c.flushed = Len(b.lines) /\ c.rewritten \in {"no", "stopped"}
      /\ c.rewritten = "stopped" <=> b.rewritten = "stopped"
  BY ONLY <1>1, <1>2
<1>4. c \in BaseFiles
  <2>1. Len(b.lines) <= Len(b.lines) /\ c.rewritten \in {"no", "pending", "stopped"}
    BY <1>1, <1>3
  <2> QED BY ONLY <1>1, <1>2, <1>3, <2>1 DEF BaseFiles, Whole
<1>5. Loads(b.lines) => FlushedLoads(c)
  BY ONLY <1>1, <1>3 DEF Loads, FlushedLoads
<1>6. GoesOn(b, c)
  BY ONLY <1>3, <1>4, <1>5 DEF GoesOn, Kept
<1> QED BY ONLY <1>3, <1>6 DEF c

\* A flushed file that loads still does after a stop.
LEMMA FlushedIsKept ==
  ASSUME NEW b \in BaseFiles, b.flushed = Len(b.lines), Loads(b.lines)
  PROVE  Kept(b)
<1>1. b.lines \in Seq(Whole) /\ DOMAIN b.lines = 1..Len(b.lines)
  BY BaseIs, LenProperties
<1> QED BY <1>1 DEF Kept, Loads, FlushedLoads

-----------------------------------------------------------------------------
\* What a job is.
LEMMA JobIs ==
  ASSUME NEW j \in Commands \cup Batches \cup {NoJob}
  PROVE  /\ j \in Commands <=> j.kind = "command"
         /\ j \in Batches <=> j.kind = "batch"
         /\ j \in Commands => /\ KeyOf(j) \in WeKeys /\ j.policy \in Reviewed
                              /\ j.keys = {KeyOf(j)} /\ j = CommandFor(KeyOf(j), j.policy)
         /\ j \in Batches => j.keys \subseteq WeKeys
<1>1. CASE j \in Commands
  <2>1. PICK k \in WeKeys, p \in Reviewed : j = CommandFor(k, p)
    BY <1>1 DEF Commands
  <2>2. j.kind = "command" /\ j.keys = {k} /\ j.policy = p
    BY <2>1 DEF CommandFor
  <2>3. KeyOf(j) = k
    BY <2>2 DEF KeyOf
  <2>4. j \notin Batches
    BY <2>2 DEF Batches, BatchOf
  <2> QED BY <1>1, <2>1, <2>2, <2>3, <2>4
<1>2. CASE j \in Batches
  <2>1. PICK K \in SUBSET WeKeys : j = BatchOf(K)
    BY <1>2 DEF Batches
  <2>2. j.kind = "batch" /\ j.keys = K
    BY <2>1 DEF BatchOf
  <2>3. j \notin Commands
    BY <2>2 DEF Commands, CommandFor
  <2> QED BY <1>2, <2>2, <2>3
<1>3. CASE j = NoJob
  <2>1. j.kind = "none"
    BY <1>3 DEF NoJob
  <2>2. j \notin Commands /\ j \notin Batches
    BY <2>1 DEF Commands, Batches, CommandFor, BatchOf
  <2> QED BY <2>1, <2>2
<1> QED BY <1>1, <1>2, <1>3

\* A capture with one device less is one.
LEMMA BatchLess ==
  ASSUME NEW j \in Batches, NEW k
  PROVE  [j EXCEPT !.keys = @ \ {k}] \in Batches
<1>1. PICK K \in SUBSET WeKeys : j = BatchOf(K)
  BY DEF Batches
<1>2. [j EXCEPT !.keys = @ \ {k}] = BatchOf(K \ {k})
  BY <1>1 DEF BatchOf
<1>3. K \ {k} \in SUBSET WeKeys
  OBVIOUS
<1> QED BY <1>2, <1>3 DEF Batches

\* A command with another policy is one, for the same device.
LEMMA CommandWith ==
  ASSUME NEW j \in Commands, NEW p \in Reviewed
  PROVE  [j EXCEPT !.policy = p] \in Commands /\ KeyOf([j EXCEPT !.policy = p]) = KeyOf(j)
<1>1. PICK k \in WeKeys, q \in Reviewed : j = CommandFor(k, q)
  BY DEF Commands
<1>2. [j EXCEPT !.policy = p] = CommandFor(k, p)
  BY <1>1 DEF CommandFor
<1>3. CommandFor(k, p).keys = {k} /\ CommandFor(k, q).keys = {k}
  BY DEF CommandFor
<1>4. KeyOf(CommandFor(k, p)) = k /\ KeyOf(CommandFor(k, q)) = k
  BY <1>3 DEF KeyOf
<1> QED BY <1>1, <1>2, <1>4 DEF Commands

\* Which device is being saved, and as what.
LEMMA SavingIs ==
  ASSUME WeTyped, WorkTrue, weAlive # "off", weStep \in {"save", "replace", "confirm"}
  PROVE  /\ Saving \in DOMAIN weStates /\ Saving \in WeKeys
         /\ weJob.kind = "batch" => /\ weJob \in Batches /\ Saving \in weChanged
                                    /\ NewPolicy = weStates[Saving]
         /\ weJob.kind # "batch" =>
              /\ weJob \in Commands /\ weChanged = {} /\ weJob.kind = "command"
              /\ Saving = KeyOf(weJob) /\ NewPolicy = weJob.policy /\ weJob.policy \in Reviewed
              /\ Loads(weBase[Saving].lines)
         /\ NewPolicy \in Policies \cup {"corrupt"}
<1>1. /\ weJob \in Commands \cup Batches \cup {NoJob} /\ DOMAIN weStates \subseteq WeKeys
      /\ \A k \in DOMAIN weStates : weStates[k] \in Policies \cup {"corrupt"}
  BY DEF WeTyped
<1>2. /\ weChanged \subseteq DOMAIN weStates
      /\ \/ weJob \in Batches /\ weChanged # {}
         \/ /\ weJob \in Commands /\ weChanged = {}
            /\ KeyOf(weJob) \in DOMAIN weStates /\ Loads(weBase[KeyOf(weJob)].lines)
  BY DEF WorkTrue
<1>3. /\ weJob \in Commands <=> weJob.kind = "command"
      /\ weJob \in Batches <=> weJob.kind = "batch"
      /\ weJob \in Commands => weJob.policy \in Reviewed
  BY ONLY <1>1, JobIs
<1>4. CASE weJob.kind = "batch"
  <2>1. weJob \in Batches /\ weChanged # {}
    BY ONLY <1>2, <1>3, <1>4
  <2>2. Saving \in weChanged
    BY ONLY <1>4, <2>1 DEF Saving
  <2>3. NewPolicy = weStates[Saving]
    BY ONLY <1>4 DEF NewPolicy
  <2> QED BY ONLY <1>1, <1>2, <1>4, <2>1, <2>2, <2>3
<1>5. CASE weJob.kind # "batch"
  <2>1. /\ weJob \in Commands /\ weChanged = {} /\ weJob.policy \in Reviewed
        /\ KeyOf(weJob) \in DOMAIN weStates /\ Loads(weBase[KeyOf(weJob)].lines)
    BY ONLY <1>2, <1>3, <1>5
  <2>2. Saving = KeyOf(weJob) /\ NewPolicy = weJob.policy
    BY ONLY <1>5 DEF Saving, NewPolicy
  <2>3. Reviewed \subseteq Policies
    BY DEF Reviewed, Policies
  <2> QED BY ONLY <1>1, <1>3, <1>5, <2>1, <2>2, <2>3
<1> QED BY <1>4, <1>5

-----------------------------------------------------------------------------
\* It holds before the program ever ran.
LEMMA WeInitInv == WeInit => WeInv
<1> SUFFICES ASSUME WeInit PROVE WeInv
  OBVIOUS
<1> DEFINE b0 == [lines |-> <<>>, flushed |-> 0, rewritten |-> "no"]
           e0 == [now |-> "none", may |-> {"none"}]
<1>1. /\ \A k \in WeKeys : weBase[k] = b0 /\ weEnrol[k] = e0 /\ weAnswered[k] = {"unreviewed"}
      /\ weBase \in [WeKeys -> {b0}] /\ weEnrol \in [WeKeys -> {e0}]
      /\ weAnswered \in [WeKeys -> {{"unreviewed"}}]
      /\ weAlive = "off" /\ weDevices = {} /\ weError = FALSE /\ weJobs = <<>> /\ weJob = NoJob
      /\ DOMAIN weStates = {}
  BY DEF WeInit
<1>2. b0 \in BaseFiles
  <2>1. <<>> \in Seq(Whole) /\ Len(<<>>) = 0
    BY EmptySeq
  <2> QED BY <2>1 DEF BaseFiles, Whole
<1>3. e0 \in [now : Contents, may : SUBSET Contents] /\ {"unreviewed"} \in SUBSET Policies
  BY DEF Contents, Policies
<1>4. <<>> \in Seq(Commands \cup Batches)
  BY EmptySeq
<1>5. e0.may = {"none"} /\ e0.now = "none"
  OBVIOUS
<1> HIDE DEF b0, e0
<1>6. WeTyped
  BY <1>1, <1>2, <1>3, <1>4 DEF WeTyped
<1>7. MemoryTrue /\ WorkTrue /\ WeAnswersHold
  BY <1>1 DEF MemoryTrue, WorkTrue, WeAnswersHold
<1>8. PromisesKept
  <2>1. \A k \in WeKeys : ~Promised(k)
    BY <1>1, <1>5 DEF Promised, Reviewed
  <2> QED BY <2>1 DEF PromisesKept
<1>9. FilesAnswered
  BY <1>1, <1>5 DEF FilesAnswered, FileShows
<1> QED BY <1>6, <1>7, <1>8, <1>9 DEF WeInv

\* A step that touches neither the files nor what memory has of them.
LEMMA QuietStep ==
  ASSUME WeInv, UNCHANGED <<weFiles, weMemory, weAnswered>>,
         weAlive' # "off" => weAlive # "off",
         weJobs' \in Seq(Commands \cup Batches),
         weJob' \in Commands \cup Batches \cup {NoJob},
         WorkTrue',
         weStep # "confirm" \/ (weAlive' # "off" /\ weStep' = weStep /\ weJob' = weJob)
  PROVE  WeInv'
<1>1. /\ weBase' = weBase /\ weEnrol' = weEnrol /\ weDevices' = weDevices
      /\ weStates' = weStates /\ weError' = weError /\ weAnswered' = weAnswered
  BY DEF weFiles, weMemory
<1>2. WeTyped'
  BY <1>1 DEF WeInv, WeTyped
<1>3. MemoryTrue'
  BY <1>1 DEF WeInv, MemoryTrue
<1>4. PromisesKept'
  BY <1>1 DEF WeInv, PromisesKept, Promised
<1>5. FilesAnswered'
  BY <1>1 DEF WeInv, FilesAnswered, UnderWay
<1>6. WeAnswersHold'
  BY <1>1 DEF WeInv, WeAnswersHold
<1> QED BY <1>2, <1>3, <1>4, <1>5, <1>6 DEF WeInv

\* What is asked of the worker's place depends on these alone.
LEMMA WorkStays ==
  ASSUME WorkTrue, UNCHANGED <<weFiles, weMemory, weWork>>,
         weAlive' # "off" => weAlive # "off"
  PROVE  WorkTrue'
<1>1. /\ weBase' = weBase /\ weEnrol' = weEnrol /\ weStates' = weStates
      /\ weJob' = weJob /\ weStep' = weStep /\ weChanged' = weChanged
  BY DEF weFiles, weMemory, weWork
<1> QED BY <1>1 DEF WorkTrue, NewPolicy, Saving

\* The destructor asks the worker to stop, and it does.
LEMMA StopInv == ASSUME WeInv, WeStop \/ WeStopped PROVE WeInv'
<1>1. /\ UNCHANGED <<weFiles, weMemory, weJobs, weWork, weAnswered>>
      /\ weAlive' # "off" => weAlive # "off"
      /\ weStep # "confirm" \/ weAlive' # "off"
  BY DEF WeStop, WeStopped
<1>2. WorkTrue'
  BY <1>1, WorkStays DEF WeInv
<1>3. weJobs' = weJobs /\ weJob' = weJob /\ weStep' = weStep
  BY <1>1 DEF weWork
<1>4. weJobs' \in Seq(Commands \cup Batches) /\ weJob' \in Commands \cup Batches \cup {NoJob}
  BY <1>3 DEF WeInv, WeTyped
<1> QED BY <1>1, <1>2, <1>3, <1>4, QuietStep

\* A capture or a command joins the queue.
LEMMA QueueInv == ASSUME WeInv, WeSubmit \/ WeCommand PROVE WeInv'
<1>1. /\ UNCHANGED <<weFiles, weMemory, weWork, weAnswered>> /\ weAlive' = weAlive
      /\ weAlive # "off"
  BY DEF WeSubmit, WeCommand
<1>2. PICK j \in Commands \cup Batches : weJobs' = Append(weJobs, j)
  <2>1. CASE WeSubmit
    BY <2>1 DEF WeSubmit, Batches
  <2>2. CASE WeCommand
    <3>1. Reviewed = Policies \ {"unreviewed"}
      BY DEF Reviewed, Policies
    <3> QED BY <2>2, <3>1 DEF WeCommand, Commands
  <2> QED BY <2>1, <2>2
<1>3. WorkTrue'
  BY <1>1, WorkStays DEF WeInv
<1>4. weJob' = weJob /\ weStep' = weStep
  BY <1>1 DEF weWork
<1>5. weJobs \in Seq(Commands \cup Batches) /\ weJob \in Commands \cup Batches \cup {NoJob}
  BY DEF WeInv, WeTyped
<1>6. weJobs' \in Seq(Commands \cup Batches)
  BY <1>2, <1>5, AppendProperties
<1> QED BY <1>1, <1>3, <1>4, <1>5, <1>6, QuietStep

\* The worker takes a job.
LEMMA TakeInv == ASSUME WeInv, WeTake PROVE WeInv'
<1>1. /\ UNCHANGED <<weFiles, weMemory, weAnswered>> /\ weAlive' = weAlive /\ weAlive # "off"
      /\ weStep = "wait" /\ weJobs # <<>> /\ weJob' = Head(weJobs) /\ weJobs' = Tail(weJobs)
      /\ weStep' = (IF Head(weJobs).kind = "batch" THEN "record" ELSE "check")
      /\ weChanged' = {}
  BY DEF WeTake
<1>2. weJobs \in Seq(Commands \cup Batches)
  BY DEF WeInv, WeTyped
<1>3. Head(weJobs) \in Commands \cup Batches /\ Tail(weJobs) \in Seq(Commands \cup Batches)
  BY <1>1, <1>2, HeadTailProperties
<1>4. weJob' \in Commands \cup Batches \cup {NoJob}
  BY ONLY <1>1, <1>3
<1>5. weJob' \in Commands \/ (weJob'.kind = "batch" /\ weJob' \in Batches)
  BY ONLY <1>1, <1>3, <1>4, JobIs
<1>6. weJob' \in Commands => weJob'.kind = "command"
  BY ONLY <1>4, JobIs
<1>7. WorkTrue'
  BY ONLY <1>1, <1>5, <1>6 DEF WorkTrue
<1> QED BY <1>1, <1>3, <1>4, <1>7, QuietStep

\* A capture is recorded, a command refused.
LEMMA DoneInv == ASSUME WeInv, WeRecorded \/ WeRefuse PROVE WeInv'
<1>1. /\ UNCHANGED <<weFiles, weMemory, weAnswered, weJobs, weChanged>>
      /\ weAlive' = weAlive /\ weAlive # "off" /\ weStep \in {"record", "check"}
      /\ \/ weStep' = "wait" /\ weJob' \in {weJob, NoJob}
         \/ weStep' = "save" /\ weJob' = weJob /\ weStep = "record" /\ weChanged # {}
  BY DEF WeRecorded, WeRefuse
<1>2. /\ weJobs' \in Seq(Commands \cup Batches)
      /\ weJob' \in Commands \cup Batches \cup {NoJob}
  BY <1>1 DEF WeInv, WeTyped
<1>3. weStates' = weStates /\ weChanged' = weChanged
  BY <1>1 DEF weMemory
<1>4. weChanged \subseteq DOMAIN weStates /\ (weStep = "record" => weJob \in Batches)
  BY <1>1 DEF WeInv, WorkTrue
<1>5. WorkTrue'
  BY ONLY <1>1, <1>3, <1>4 DEF WorkTrue
<1> QED BY <1>1, <1>2, <1>5, QuietStep

\* A command is accepted.
LEMMA ApplyInv == ASSUME WeInv, WeApply PROVE WeInv'
<1> DEFINE k == KeyOf(weJob)
<1>1. /\ UNCHANGED <<weFiles, weMemory, weAnswered, weJobs>>
      /\ weAlive' = weAlive /\ weAlive # "off" /\ weStep = "check"
      /\ k \in DOMAIN weStates /\ weStates[k] # "corrupt" /\ ~weError
      /\ weStep' = "save" /\ weChanged' = {}
      /\ \/ weJob' = weJob
         \/ weStates[k] # "unreviewed" /\ weJob' = [weJob EXCEPT !.policy = weStates[k]]
  BY DEF WeApply
<1>2. weJob \in Commands /\ weJobs \in Seq(Commands \cup Batches)
  BY <1>1 DEF WeInv, WeTyped, WorkTrue
<1>3. weStates[k] \in Policies \cup {"corrupt"} /\ k \in WeKeys
  BY <1>1 DEF WeInv, WeTyped
<1>4. weStates[k] # "unreviewed" => weStates[k] \in Reviewed
  BY <1>1, <1>3 DEF Policies, Reviewed
<1>5. Loads(weBase[k].lines)
  BY <1>1, <1>3 DEF WeInv, MemoryTrue
<1>6. weJob' \in Commands /\ KeyOf(weJob') = k
  <2> HIDE DEF k
  <2>1. CASE weStates[k] # "unreviewed" /\ weJob' = [weJob EXCEPT !.policy = weStates[k]]
    <3>1. weStates[k] \in Reviewed
      BY <1>4, <2>1
    <3>2. /\ [weJob EXCEPT !.policy = weStates[k]] \in Commands
          /\ KeyOf([weJob EXCEPT !.policy = weStates[k]]) = KeyOf(weJob)
      BY ONLY <1>2, <3>1, CommandWith
    <3> QED BY ONLY <2>1, <3>2 DEF k
  <2>2. CASE weJob' = weJob
    BY ONLY <1>2, <2>2 DEF k
  <2> QED BY ONLY <1>1, <2>1, <2>2
<1>7. weBase' = weBase /\ weStates' = weStates /\ KeyOf(weJob)' = KeyOf(weJob')
  BY <1>1 DEF weFiles, weMemory, KeyOf
<1> HIDE DEF k
<1>8. WorkTrue'
  BY ONLY <1>1, <1>5, <1>6, <1>7 DEF WorkTrue
<1>9. weJobs' = weJobs
  BY <1>1
<1> QED BY <1>1, <1>2, <1>6, <1>8, <1>9, QuietStep

\* A save is over: the worker goes on with the next one, or waits.
LEMMA SaveEndsWork ==
  ASSUME WeTyped, WorkTrue, weAlive # "off", weStep \in {"save", "replace", "confirm"},
         SaveEnds, DOMAIN weStates' = DOMAIN weStates
  PROVE  WorkTrue' /\ weJob' \in Commands \cup Batches \cup {NoJob}
<1>1. /\ weChanged' = weChanged \ {Saving}
      /\ \/ weStep' = "wait" /\ weJob' = NoJob
         \/ weStep' = "save" /\ weJob' = weJob /\ weChanged \ {Saving} # {}
  BY DEF SaveEnds
<1>2. weChanged \subseteq DOMAIN weStates /\ weJob \in Commands \cup Batches \cup {NoJob}
  BY DEF WorkTrue, WeTyped
<1>3. weChanged # {} => weJob \in Batches
  BY SavingIs
<1>4. weChanged' \subseteq DOMAIN weStates'
  BY ONLY <1>1, <1>2, DOMAIN weStates' = DOMAIN weStates
<1>5. weStep' = "save" => weJob' \in Batches /\ weChanged' # {}
  BY ONLY <1>1, <1>3
<1>6. weStep' \in {"wait", "save"}
  BY ONLY <1>1
<1>7. WorkTrue'
  BY ONLY <1>4, <1>5, <1>6 DEF WorkTrue
<1>8. weJob' \in Commands \cup Batches \cup {NoJob}
  BY ONLY <1>1, <1>2
<1> QED BY <1>7, <1>8

\* A save leaves an unreadable record alone, or fails before it replaces anything.
LEMMA NotSavedInv ==
  ASSUME WeInv, WeSaveCorrupt \/ WeSaveFails
  PROVE  WeInv'
<1>1. /\ UNCHANGED <<weFiles, weMemory, weAnswered, weJobs>> /\ SaveEnds
      /\ weAlive' = weAlive /\ weAlive # "off" /\ weStep \in {"save", "replace"}
  BY DEF WeSaveCorrupt, WeSaveFails
<1>2. WeTyped /\ WorkTrue
  BY DEF WeInv
<1>3. weStates' = weStates /\ weJobs' = weJobs
  BY <1>1 DEF weMemory
<1>4. WorkTrue' /\ weJob' \in Commands \cup Batches \cup {NoJob}
  BY <1>1, <1>2, <1>3, SaveEndsWork
<1>5. weJobs' \in Seq(Commands \cup Batches)
  BY <1>2, <1>3 DEF WeTyped
<1> QED BY <1>1, <1>4, <1>5, QuietStep

\* An observation is not recorded.
LEMMA SkipInv == ASSUME WeInv, WeSkip PROVE WeInv'
<1>1. /\ weBase' = weBase /\ weEnrol' = weEnrol /\ weDevices' = weDevices
      /\ weStates' = weStates /\ weAnswered' = weAnswered /\ weJobs' = weJobs
      /\ weAlive' = weAlive /\ weAlive # "off" /\ weStep = "record" /\ weStep' = weStep
      /\ weChanged' = weChanged /\ weError' \in {weError, TRUE}
  BY DEF WeSkip, weFiles
<1>2. PICK k \in weJob.keys : weJob' = [weJob EXCEPT !.keys = @ \ {k}]
  BY DEF WeSkip
<1>3. weJob \in Batches /\ weChanged \subseteq DOMAIN weStates
  BY <1>1 DEF WeInv, WorkTrue
<1>4. [weJob EXCEPT !.keys = @ \ {k}] \in Batches
  BY <1>3, BatchLess
<1>5. weJob' \in Batches
  BY ONLY <1>2, <1>4
<1>6. WeTyped'
  BY <1>1, <1>5 DEF WeInv, WeTyped
<1>7. WorkTrue'
  BY ONLY <1>1, <1>3, <1>5 DEF WorkTrue
<1>8. MemoryTrue'
  <2>1. weError' = weError \/ weError' = TRUE
    BY <1>1
  <2>2. ~weError' => ~weError
    BY ONLY <2>1, Zenon
  <2>3. /\ weAlive' = weAlive /\ weBase' = weBase /\ weDevices' = weDevices
        /\ weStates' = weStates
    BY <1>1
  <2>4. MemoryTrue
    BY DEF WeInv
  <2> QED BY ONLY <2>2, <2>3, <2>4, Zenon DEF MemoryTrue
<1>9. PromisesKept'
  BY <1>1 DEF WeInv, PromisesKept, Promised
<1>10. FilesAnswered'
  BY <1>1 DEF WeInv, FilesAnswered, UnderWay
<1>11. WeAnswersHold'
  BY <1>1 DEF WeInv, WeAnswersHold
<1> QED BY <1>6, <1>7, <1>8, <1>9, <1>10, <1>11 DEF WeInv

\* The file of an enrolment becomes unreadable.
LEMMA DamageInv == ASSUME WeInv, WeDamage PROVE WeInv'
<1>1. /\ weBase' = weBase /\ weAnswered' = weAnswered /\ weAlive' = weAlive /\ weAlive = "off"
      /\ weJobs' = weJobs /\ weJob' = weJob /\ weDevices' = weDevices /\ weStates' = weStates
      /\ weError' = weError
  BY DEF WeDamage, weMemory, weWork
<1> DEFINE bad == [now |-> "corrupt", may |-> {"corrupt"}]
<1>2. PICK d \in WeKeys : weEnrol' = [weEnrol EXCEPT ![d] = bad]
  BY DEF WeDamage
<1>3. /\ bad \in [now : Contents, may : SUBSET Contents]
      /\ bad.now = "corrupt" /\ bad.may = {"corrupt"}
  BY DEF Contents
<1> HIDE DEF bad
<1>4. WeTyped
  BY DEF WeInv
<1>5. \A k \in WeKeys : weEnrol'[k] = weEnrol[k] \/ weEnrol'[k] = bad
  BY <1>2, <1>4 DEF WeTyped
<1>6. weEnrol' \in [WeKeys -> [now : Contents, may : SUBSET Contents]]
  BY <1>2, <1>3, <1>4 DEF WeTyped
<1>7. WeTyped'
  BY <1>1, <1>4, <1>6 DEF WeTyped
<1>8. MemoryTrue' /\ WorkTrue' /\ WeAnswersHold'
  BY <1>1 DEF MemoryTrue, WorkTrue, WeAnswersHold
<1>9. PromisesKept'
  <2>1. \A k \in WeKeys : Promised(k)' => Promised(k)
    BY <1>1, <1>3, <1>5 DEF Promised, Reviewed
  <2> QED BY <1>1, <2>1 DEF WeInv, PromisesKept
<1>10. FilesAnswered'
  <2>1. FilesAnswered /\ \A k, p : ~UnderWay(k, p) /\ ~UnderWay(k, p)'
    BY <1>1 DEF WeInv, UnderWay
  <2> SUFFICES ASSUME NEW k \in WeKeys
               PROVE  /\ weEnrol'[k].now \in weEnrol'[k].may
                      /\ weBase[k].rewritten # "stopped" =>
                           \A p \in weEnrol'[k].may :
                             FileShows(p) \in weAnswered[k] \cup {"corrupt"}
    BY <1>1 DEF FilesAnswered
  <2>2. CASE weEnrol'[k] = weEnrol[k]
    BY <2>1, <2>2 DEF FilesAnswered
  <2>3. CASE weEnrol'[k] = bad
    BY <1>3, <2>3 DEF FileShows
  <2> QED BY <1>5, <2>2, <2>3
<1> QED BY <1>7, <1>8, <1>9, <1>10 DEF WeInv

\* The program starts: both lists are what the files hold.
LEMMA StartInv == ASSUME WeInv, WeStart PROVE WeInv'
<1>1. /\ weBase' = weBase /\ weEnrol' = weEnrol /\ weAnswered' = weAnswered
      /\ weAlive = "off" /\ weAlive' = "on"
      /\ weJobs' = <<>> /\ weJob' = NoJob /\ weStep' = "wait" /\ weChanged' = {}
  BY DEF WeStart, weFiles
<1> DEFINE K == {d \in WeKeys : Loads(weBase[d].lines)}
           Shown(k) == IF weEnrol[k].now = "none" THEN "unreviewed" ELSE weEnrol[k].now
<1>2. /\ weDevices' = K
      /\ weStates' = [k \in K |-> Shown(k)]
      /\ weError' = (\E k \in WeKeys : Malformed(weBase[k].lines))
  BY DEF WeStart
<1>3. WeTyped /\ PromisesKept /\ FilesAnswered
  BY DEF WeInv
<1>4. \A k \in K : /\ k \in WeKeys /\ Loads(weBase[k].lines)
                   /\ weStates'[k] = FileShows(weEnrol[k].now)
  BY <1>2 DEF FileShows
<1>5. DOMAIN weStates' = K /\ K \subseteq WeKeys
  BY <1>2
<1>6. \A k \in WeKeys : weEnrol[k].now \in Contents /\ weBase[k] \in BaseFiles
  BY <1>3 DEF WeTyped
<1>7. \A p \in Contents : FileShows(p) \in Policies \cup {"corrupt"}
  BY DEF Contents, FileShows, Policies
<1>8. WeTyped'
  <2>1. \A k \in DOMAIN weStates' : weStates'[k] \in Policies \cup {"corrupt"}
    BY <1>4, <1>5, <1>6, <1>7
  <2>2. weError' \in BOOLEAN
    BY ONLY <1>2
  <2>3. weJobs' \in Seq(Commands \cup Batches)
    BY <1>1, EmptySeq
  <2>4. weDevices' \subseteq WeKeys
    BY <1>2
  <2>5. weJob' \in Commands \cup Batches \cup {NoJob}
    BY <1>1
  <2>6. /\ weBase \in [WeKeys -> BaseFiles]
        /\ weEnrol \in [WeKeys -> [now : Contents, may : SUBSET Contents]]
        /\ weAnswered \in [WeKeys -> SUBSET Policies]
    BY <1>3 DEF WeTyped
  <2>7. DOMAIN weStates' \subseteq WeKeys
    BY <1>5
  <2> QED BY ONLY <1>1, <2>1, <2>2, <2>3, <2>4, <2>5, <2>6, <2>7 DEF WeTyped
<1>9. MemoryTrue'
  <2>1. ASSUME NEW k \in WeKeys, ~Malformed(weBase[k].lines), weBase[k].lines # <<>>
        PROVE  weBase[k].lines[1] = "meta"
    <3>1. weBase[k].lines \in Seq(Whole)
      BY <1>6, BaseIs
    <3>2. 1 \in DOMAIN weBase[k].lines
      <4> DEFINE l == weBase[k].lines
      <4>1. l \in Seq(Whole) /\ l # <<>>
        BY <2>1, <3>1
      <4> HIDE DEF l
      <4>2. Len(l) \in Nat /\ Len(l) # 0 /\ DOMAIN l = 1..Len(l)
        BY ONLY <4>1, LenProperties, EmptySeq
      <4>3. 1 \in DOMAIN l
        BY ONLY <4>2
      <4> QED BY <4>3 DEF l
    <3> QED BY <2>1, <3>2 DEF Malformed
  <2>2. \A k \in WeKeys : Loads(weBase[k].lines) => weBase[k].lines # <<>>
    BY DEF Loads
  <2>3. ~weError' => \A k \in WeKeys : ~Malformed(weBase[k].lines)
    BY ONLY <1>2, Zenon
  <2>4. \A k \in K : k \in WeKeys /\ Loads(weBase[k].lines)
    BY <1>4
  <2>5. weDevices' = K /\ DOMAIN weStates' = K
    BY <1>2, <1>5
  <2>6. ~weError' => \A k \in WeKeys : weBase[k].lines # <<>> => weBase[k].lines[1] = "meta"
    BY ONLY <2>1, <2>3, Zenon
  <2> HIDE DEF K
  <2> QED BY ONLY <1>1, <2>2, <2>4, <2>5, <2>6, Zenon DEF MemoryTrue
<1>10. WorkTrue'
  BY ONLY <1>1 DEF WorkTrue
<1>11. PromisesKept'
  <2>1. \A k \in WeKeys : Promised(k)' = Promised(k)
    BY ONLY <1>1 DEF Promised
  <2>2. \A k \in WeKeys : Kept(weBase[k]) => k \in DOMAIN weStates'
    BY <1>5 DEF Kept
  <2> QED BY ONLY <1>1, <1>3, <2>1, <2>2 DEF PromisesKept
<1>12. FilesAnswered'
  BY ONLY <1>1, <1>3 DEF FilesAnswered, UnderWay
<1>13. WeAnswersHold'
  <2>1. \A k \in K : weBase[k].rewritten # "stopped" =>
                       FileShows(weEnrol[k].now) \in weAnswered[k] \cup {"corrupt"}
    BY ONLY <1>1, <1>3, <1>4 DEF FilesAnswered, UnderWay
  <2> QED BY ONLY <1>1, <1>4, <1>5, <2>1 DEF WeAnswersHold
<1> QED BY <1>8, <1>9, <1>10, <1>11, <1>12, <1>13 DEF WeInv

\* The machine stops.
LEMMA CrashInv == ASSUME WeInv, WeCrash PROVE WeInv'
<1>1. /\ weAlive # "off" /\ weAlive' = "off" /\ weJobs' = weJobs /\ weJob' = weJob
      /\ weDevices' = weDevices /\ weStates' = weStates /\ weError' = weError
  BY DEF WeCrash, weMemory, weWork
<1>2. WeTyped /\ PromisesKept /\ FilesAnswered
  BY DEF WeInv
<1>3. \A k \in WeKeys : /\ weBase[k] \in BaseFiles /\ weEnrol[k].may \subseteq Contents
                        /\ weAnswered[k] \subseteq Policies
  BY <1>2 DEF WeTyped
<1>4. /\ DOMAIN weBase' = WeKeys /\ weBase' = [k \in WeKeys |-> weBase'[k]]
      /\ \A k \in WeKeys : weBase'[k] \in Survivors(weBase[k])
  BY DEF WeCrash
<1>5. \A k \in WeKeys : /\ weBase'[k] \in BaseFiles
                        /\ weBase'[k].rewritten # "stopped" => weBase[k].rewritten = "no"
                        /\ FlushedLoads(weBase[k]) => Kept(weBase'[k])
  BY ONLY <1>3, <1>4, SurvivorsLoad
<1>6. /\ weEnrol' = [k \in WeKeys |-> weEnrol'[k]]
      /\ \A k \in WeKeys : \E p \in weEnrol[k].may : weEnrol'[k] = [now |-> p, may |-> {p}]
  <2> DEFINE E == UNION {{[now |-> p, may |-> {p}] : p \in weEnrol[k].may} : k \in WeKeys}
  <2>1. weEnrol' \in [WeKeys -> E] /\ \A k \in WeKeys : weEnrol'[k].now \in weEnrol[k].may
    BY DEF WeCrash
  <2>2. \A e \in E : \E p \in {e.now} : e = [now |-> p, may |-> {p}]
    OBVIOUS
  <2> HIDE DEF E
  <2> QED BY ONLY <2>1, <2>2
<1>7. /\ weAnswered' = [k \in WeKeys |-> weAnswered'[k]]
      /\ \A k \in WeKeys : /\ weAnswered[k] \subseteq weAnswered'[k]
                           /\ weAnswered'[k] \subseteq Policies
                           /\ weJob \in Commands /\ k = KeyOf(weJob) =>
                                weJob.policy \in weAnswered'[k]
  <2>1. weAnswered \in [WeKeys -> SUBSET Policies]
        /\ weJob \in Commands \cup Batches \cup {NoJob}
    BY <1>2 DEF WeTyped
  <2>2. CASE weJob.kind = "command"
    <3>1. weJob \in Commands /\ KeyOf(weJob) \in WeKeys /\ weJob.policy \in Policies
      <4>1. Reviewed \subseteq Policies
        BY DEF Reviewed, Policies
      <4> QED BY ONLY <2>1, <2>2, <4>1, JobIs
    <3>2. weAnswered' = [weAnswered EXCEPT ![KeyOf(weJob)] = @ \cup {weJob.policy}]
      BY <2>2 DEF WeCrash
    <3> QED BY ONLY <2>1, <3>1, <3>2
  <2>3. CASE weJob.kind # "command"
    <3>1. weAnswered' = weAnswered
      BY <2>3 DEF WeCrash
    <3>2. weJob \notin Commands
      BY ONLY <2>1, <2>3, JobIs
    <3> QED BY ONLY <2>1, <3>1, <3>2
  <2> QED BY <2>2, <2>3
<1>8. \A k \in WeKeys : weEnrol'[k] \in [now : Contents, may : SUBSET Contents]
  BY ONLY <1>3, <1>6
<1>9. WeTyped'
  BY ONLY <1>1, <1>2, <1>4, <1>5, <1>6, <1>7, <1>8 DEF WeTyped
<1>10. MemoryTrue' /\ WorkTrue' /\ WeAnswersHold'
  BY ONLY <1>1 DEF MemoryTrue, WorkTrue, WeAnswersHold
<1>11. PromisesKept'
  <2> SUFFICES ASSUME NEW k \in WeKeys, weBase'[k].rewritten # "stopped", Promised(k)'
               PROVE  Kept(weBase'[k])
    BY <1>1 DEF PromisesKept
  <2>1. weEnrol'[k].may \subseteq weEnrol[k].may
    BY ONLY <1>6, k \in WeKeys
  <2>2. Promised(k)
    BY ONLY <1>7, <2>1, Promised(k)', k \in WeKeys DEF Promised
  <2>3. weBase[k].rewritten = "no" /\ weBase[k].rewritten # "stopped"
    BY <1>5
  <2>4. Kept(weBase[k])
    BY ONLY <1>2, <2>2, <2>3, k \in WeKeys DEF PromisesKept
  <2> QED BY <1>5, <2>3, <2>4 DEF Kept
<1>12. FilesAnswered'
  <2> SUFFICES ASSUME NEW k \in WeKeys
               PROVE  /\ weEnrol'[k].now \in weEnrol'[k].may
                      /\ weBase'[k].rewritten # "stopped" =>
                           \A p \in weEnrol'[k].may :
                             FileShows(p) \in weAnswered'[k] \cup {"corrupt"}
    BY <1>1 DEF FilesAnswered
  <2>1. PICK q \in weEnrol[k].may : weEnrol'[k] = [now |-> q, may |-> {q}]
    BY <1>6
  <2>2. weEnrol'[k].now = q /\ weEnrol'[k].may = {q}
    BY <2>1
  <2>3. ASSUME weBase'[k].rewritten # "stopped"
        PROVE  FileShows(q) \in weAnswered'[k] \cup {"corrupt"}
    <3>1. weBase[k].rewritten # "stopped"
      BY <1>5, <2>3
    <3>2. FileShows(q) \in weAnswered[k] \cup {"corrupt"} \/ UnderWay(k, q)
      BY <1>2, <2>1, <3>1 DEF FilesAnswered
    <3>3. CASE FileShows(q) \in weAnswered[k] \cup {"corrupt"}
      BY <1>7, <3>3
    <3>4. CASE UnderWay(k, q)
      <4>1. weJob \in Commands /\ k = KeyOf(weJob) /\ q = weJob.policy
        BY <3>4 DEF UnderWay
      <4>2. q \in weAnswered'[k]
        BY ONLY <1>7, <4>1, k \in WeKeys
      <4>3. q # "none"
        BY ONLY <1>7, <4>2, k \in WeKeys DEF Policies
      <4> QED BY ONLY <4>2, <4>3 DEF FileShows
    <3> QED BY <3>2, <3>3, <3>4
  <2> QED BY ONLY <2>2, <2>3
<1> QED BY <1>9, <1>10, <1>11, <1>12 DEF WeInv

\* Every file goes on: what was promised of it holds.
LEMMA FilesGoOn ==
  ASSUME WeInv, \A k \in WeKeys : GoesOn(weBase[k], weBase'[k]),
         weEnrol' = weEnrol, weAnswered' = weAnswered, weAlive' = weAlive,
         DOMAIN weStates \subseteq DOMAIN weStates', weStep # "confirm"
  PROVE  /\ PromisesKept' /\ FilesAnswered'
         /\ \A k \in WeKeys : weBase'[k].rewritten = "stopped" <=> weBase[k].rewritten = "stopped"
<1>1. PromisesKept /\ FilesAnswered
  BY DEF WeInv
<1>2. \A k \in WeKeys : /\ weBase'[k].rewritten = "stopped" <=> weBase[k].rewritten = "stopped"
                        /\ Kept(weBase[k]) => Kept(weBase'[k])
  BY DEF GoesOn
<1>3. PromisesKept'
  <2>1. \A k \in WeKeys : Promised(k)' = Promised(k)
    BY DEF Promised
  <2> QED BY ONLY <1>1, <1>2, <2>1, weAlive' = weAlive, DOMAIN weStates \subseteq DOMAIN weStates'
          DEF PromisesKept
<1>4. FilesAnswered'
  <2>1. \A k, p : ~UnderWay(k, p)
    BY DEF UnderWay
  <2> SUFFICES ASSUME NEW k \in WeKeys
               PROVE  /\ weEnrol[k].now \in weEnrol[k].may
                      /\ weBase'[k].rewritten # "stopped" =>
                           \A p \in weEnrol[k].may :
                             FileShows(p) \in weAnswered[k] \cup {"corrupt"}
    BY DEF FilesAnswered
  <2> QED BY ONLY <1>1, <1>2, <2>1, k \in WeKeys DEF FilesAnswered
<1> QED BY <1>2, <1>3, <1>4

\* One file is replaced by one that goes on, or none is.
LEMMA OneGoesOn ==
  ASSUME NEW f \in [WeKeys -> BaseFiles], NEW g, NEW k \in WeKeys, NEW c,
         GoesOn(f[k], c), g = f \/ g = [f EXCEPT ![k] = c]
  PROVE  /\ g \in [WeKeys -> BaseFiles] /\ \A d \in WeKeys : GoesOn(f[d], g[d])
         /\ \A d \in WeKeys : d # k => g[d] = f[d]
         /\ g # f => g[k] = c
<1>1. c \in BaseFiles
  BY DEF GoesOn
<1>2. CASE g = f
  BY <1>2, GoesOnSelf
<1>3. CASE g = [f EXCEPT ![k] = c]
  <2>1. g \in [WeKeys -> BaseFiles] /\ g[k] = c /\ \A d \in WeKeys : d # k => g[d] = f[d]
    BY <1>1, <1>3
  <2>2. \A d \in WeKeys : GoesOn(f[d], f[d])
    BY GoesOnSelf
  <2> QED BY ONLY <2>1, <2>2, GoesOn(f[k], c)
<1> QED BY <1>2, <1>3

\* A line is written, or the disk is full.
LEMMA AppendIs ==
  ASSUME WeTyped, NEW k \in WeKeys, NEW line \in Whole, NEW STATE after,
         GoesOn(weBase[k], after), WeAppend(k, line, after)
  PROVE  /\ weBase' \in [WeKeys -> BaseFiles] /\ \A d \in WeKeys : GoesOn(weBase[d], weBase'[d])
         /\ \A d \in WeKeys : d # k => weBase'[d] = weBase[d]
         /\ weError' \in BOOLEAN
         /\ ~weError' => weBase'[k] = after /\ ~weError
<1>1. weBase \in [WeKeys -> BaseFiles] /\ weError \in BOOLEAN /\ weBase[k] \in BaseFiles
  BY DEF WeTyped
<1>2. CASE weBase' = [weBase EXCEPT ![k] = after] /\ weError' = weError
  <2>1. /\ weBase' \in [WeKeys -> BaseFiles] /\ \A d \in WeKeys : GoesOn(weBase[d], weBase'[d])
        /\ \A d \in WeKeys : d # k => weBase'[d] = weBase[d]
    BY <1>1, <1>2, OneGoesOn
  <2>2. weBase'[k] = after
    BY <1>1, <1>2
  <2>3. weError' \in BOOLEAN /\ (~weError' => ~weError)
    BY ONLY <1>1, <1>2, Zenon
  <2> QED BY <2>1, <2>2, <2>3
<1>3. ASSUME weError' = TRUE, NEW l \in Whole,
             weBase' = weBase \/ weBase' = [weBase EXCEPT ![k] = Longer(k, l)]
      PROVE  /\ weBase' \in [WeKeys -> BaseFiles]
             /\ \A d \in WeKeys : GoesOn(weBase[d], weBase'[d])
             /\ \A d \in WeKeys : d # k => weBase'[d] = weBase[d]
  <2>1. GoesOn(weBase[k], [weBase[k] EXCEPT !.lines = Append(@, l)])
    BY ONLY <1>1, l \in Whole, LongerGoesOn
  <2>2. GoesOn(weBase[k], Longer(k, l))
    BY <2>1 DEF Longer
  <2> QED BY <1>1, <1>3, <2>2, OneGoesOn
<1>4. \/ weBase' = [weBase EXCEPT ![k] = after] /\ weError' = weError
      \/ /\ weError' = TRUE
         /\ \E l \in Whole : weBase' = weBase \/ weBase' = [weBase EXCEPT ![k] = Longer(k, l)]
  <2>1. "torn" \in Whole
    BY DEF Whole
  <2> QED BY <2>1 DEF WeAppend
<1>5. weError' = TRUE => weError' \in BOOLEAN /\ (~weError' => weBase'[k] = after /\ ~weError)
  OBVIOUS
<1> QED BY ONLY <1>2, <1>3, <1>4, <1>5

\* What memory has of the files stays true as they go on, with a line for a listed device.
LEMMA MemoryGoesOn ==
  ASSUME MemoryTrue, weAlive # "off", NEW k \in WeKeys,
         \A d \in WeKeys : GoesOn(weBase[d], weBase'[d]),
         \A d \in WeKeys : d # k => weBase'[d] = weBase[d],
         DOMAIN weStates' \subseteq WeKeys, DOMAIN weStates' \subseteq DOMAIN weStates \cup {k},
         weDevices' \subseteq weDevices \cup {k},
         ~weError' => /\ ~weError /\ weBase'[k].lines # <<>> /\ weBase'[k].lines[1] = "meta"
                      /\ k \in DOMAIN weStates' => Loads(weBase'[k].lines),
         \A d \in DOMAIN weStates' : weStates'[d] # "unreviewed" =>
           d \in DOMAIN weStates /\ weStates[d] = weStates'[d]
  PROVE  MemoryTrue'
<1>1. \A d \in WeKeys : Loads(weBase[d].lines) => Loads(weBase'[d].lines)
  BY DEF GoesOn
<1>2. ASSUME ~weError', NEW d \in WeKeys
      PROVE  /\ weBase'[d].lines # <<>> => weBase'[d].lines[1] = "meta"
             /\ d \in weDevices' => weBase'[d].lines # <<>>
             /\ d \in DOMAIN weStates' => Loads(weBase'[d].lines)
  <2>1. CASE d = k
    BY <1>2, <2>1
  <2>2. CASE d # k
    <3>1. /\ weBase'[d] = weBase[d] /\ (d \in weDevices' => d \in weDevices)
          /\ d \in DOMAIN weStates' => d \in DOMAIN weStates
      BY <2>2
    <3> QED BY <1>2, <3>1 DEF MemoryTrue
  <2> QED BY <2>1, <2>2
<1>3. ASSUME NEW d \in DOMAIN weStates', weStates'[d] # "unreviewed"
      PROVE  Loads(weBase'[d].lines)
  <2>1. d \in WeKeys /\ d \in DOMAIN weStates /\ weStates[d] # "unreviewed"
    BY <1>3
  <2>2. Loads(weBase[d].lines)
    BY <2>1 DEF MemoryTrue
  <2> QED BY <1>1, <2>1, <2>2
<1> QED BY ONLY <1>2, <1>3, Zenon DEF MemoryTrue

\* A device is new: its name is written.
LEMMA NameInv == ASSUME WeInv, WeName PROVE WeInv'
<1>1. /\ weEnrol' = weEnrol /\ weAnswered' = weAnswered /\ weJobs' = weJobs
      /\ weStates' = weStates /\ weAlive' = weAlive /\ weAlive # "off"
      /\ weStep = "record" /\ weStep' = weStep /\ weJob' = weJob /\ weChanged' = weChanged
  BY DEF WeName, weWork
<1>2. PICK k \in weJob.keys \ weDevices :
        WeAppend(k, "meta", Longer(k, "meta")) /\ weDevices' = weDevices \cup {k}
  BY DEF WeName
<1>3. WeTyped /\ WorkTrue /\ MemoryTrue
  BY DEF WeInv
<1>4. weJob \in Batches /\ weJob \in Commands \cup Batches \cup {NoJob}
      /\ weChanged \subseteq DOMAIN weStates
  BY <1>1, <1>3 DEF WorkTrue
<1>5. k \in WeKeys
  <2>1. weJob.keys \subseteq WeKeys
    BY ONLY <1>4, JobIs
  <2> QED BY <2>1
<1>6. "meta" \in Whole /\ weBase[k] \in BaseFiles
  BY <1>3, <1>5 DEF Whole, WeTyped
<1>7. /\ GoesOn(weBase[k], Longer(k, "meta"))
      /\ weBase[k].lines = <<>> => Longer(k, "meta").lines[1] = "meta"
      /\ Longer(k, "meta").lines # <<>>
  <2>1. Longer(k, "meta").lines = Append(weBase[k].lines, "meta")
    BY <1>6 DEF Longer, BaseFiles
  <2>2. /\ GoesOn(weBase[k], [weBase[k] EXCEPT !.lines = Append(@, "meta")])
        /\ weBase[k].lines = <<>> => Append(weBase[k].lines, "meta")[1] = "meta"
        /\ Append(weBase[k].lines, "meta") # <<>>
    BY ONLY <1>6, LongerGoesOn
  <2>3. GoesOn(weBase[k], Longer(k, "meta"))
    BY <2>2 DEF Longer
  <2> QED BY ONLY <2>1, <2>2, <2>3
<1> DEFINE after == Longer(k, "meta")
<1>8. /\ weBase' \in [WeKeys -> BaseFiles] /\ \A d \in WeKeys : GoesOn(weBase[d], weBase'[d])
      /\ \A d \in WeKeys : d # k => weBase'[d] = weBase[d]
      /\ weError' \in BOOLEAN
      /\ ~weError' => weBase'[k] = after /\ ~weError
  <2> HIDE DEF after
  <2>1. GoesOn(weBase[k], after) /\ WeAppend(k, "meta", after)
    BY <1>2, <1>7 DEF after
  <2> QED BY ONLY <1>3, <1>5, <1>6, <2>1, AppendIs
<1> HIDE DEF after
<1>9. WeTyped'
  <2>1. weDevices' \subseteq WeKeys
    BY <1>2, <1>3, <1>5 DEF WeTyped
  <2> QED BY ONLY <1>1, <1>3, <1>8, <2>1 DEF WeTyped
<1>10. WorkTrue'
  BY ONLY <1>1, <1>4 DEF WorkTrue
<1>11. /\ PromisesKept' /\ FilesAnswered'
       /\ \A d \in WeKeys : weBase'[d].rewritten = "stopped" <=> weBase[d].rewritten = "stopped"
  BY <1>1, <1>8, FilesGoOn
<1>12. WeAnswersHold'
  <2>1. WeAnswersHold /\ DOMAIN weStates \subseteq WeKeys
    BY <1>3 DEF WeInv, WeTyped
  <2> QED BY ONLY <1>1, <1>11, <2>1 DEF WeAnswersHold
<1>13. MemoryTrue'
  <2>1. ASSUME ~weError'
        PROVE  /\ ~weError /\ weBase'[k].lines # <<>> /\ weBase'[k].lines[1] = "meta"
               /\ k \in DOMAIN weStates' => Loads(weBase'[k].lines)
    <3>1. ~weError /\ weBase'[k] = after
      BY ONLY <1>8, <2>1, Zenon
    <3>2. weBase[k].lines # <<>> => weBase[k].lines[1] = "meta"
      BY <1>1, <1>3, <1>5, <3>1 DEF MemoryTrue
    <3>3. after.lines # <<>> /\ after.lines[1] = "meta"
      BY <1>7, <3>2 DEF GoesOn, after
    <3>4. k \in DOMAIN weStates => Loads(weBase[k].lines)
      BY <1>1, <1>3, <1>5, <3>1 DEF MemoryTrue
    <3>5. Loads(weBase[k].lines) => Loads(weBase'[k].lines)
      BY <1>5, <1>8 DEF GoesOn
    <3> QED BY ONLY <1>1, <3>1, <3>3, <3>4, <3>5, Zenon
  <2>2. DOMAIN weStates \subseteq WeKeys
    BY <1>3 DEF WeTyped
  <2>3. /\ DOMAIN weStates' \subseteq WeKeys /\ DOMAIN weStates' \subseteq DOMAIN weStates \cup {k}
        /\ \A d \in DOMAIN weStates' : d \in DOMAIN weStates /\ weStates[d] = weStates'[d]
    BY <1>1, <2>2
  <2> QED BY <1>1, <1>2, <1>3, <1>5, <1>8, <2>1, <2>3, MemoryGoesOn
<1> QED BY <1>9, <1>10, <1>11, <1>12, <1>13 DEF WeInv

\* An observation is recorded.
LEMMA RecordInv == ASSUME WeInv, WeRecord PROVE WeInv'
<1>1. /\ weEnrol' = weEnrol /\ weAnswered' = weAnswered /\ weJobs' = weJobs
      /\ weDevices' = weDevices /\ weAlive' = weAlive /\ weAlive # "off"
      /\ weStep = "record" /\ weStep' = weStep
  BY DEF WeRecord
<1>2. PICK k \in weJob.keys \cap weDevices :
        /\ WeAppend(k, "seen", Compacted(Longer(k, "seen")))
        /\ weStates' = [d \in DOMAIN weStates \cup {k} |->
                          IF d \in DOMAIN weStates THEN weStates[d] ELSE "unreviewed"]
        /\ weChanged' = weChanged \cup {k}
        /\ weJob' = [weJob EXCEPT !.keys = @ \ {k}]
  BY DEF WeRecord
<1>3. WeTyped /\ WorkTrue /\ MemoryTrue /\ PromisesKept /\ WeAnswersHold
  BY DEF WeInv
<1>4. weJob \in Batches /\ weChanged \subseteq DOMAIN weStates
  BY <1>1, <1>3 DEF WorkTrue
<1>5. k \in WeKeys /\ k \in weDevices
  BY <1>2, <1>3 DEF WeTyped
<1>6. "seen" \in Whole /\ weBase[k] \in BaseFiles
  BY <1>3, <1>5 DEF Whole, WeTyped
<1> DEFINE after == Compacted(Longer(k, "seen"))
<1>7. /\ GoesOn(weBase[k], after)
      /\ weBase[k].lines # <<>> /\ weBase[k].lines[1] = "meta" => Loads(after.lines)
  <2>1. after = Compacted([weBase[k] EXCEPT !.lines = Append(@, "seen")])
    BY DEF Longer
  <2> HIDE DEF after
  <2> QED BY ONLY <1>6, <2>1, RecordedGoesOn
<1> HIDE DEF after
<1>8. /\ weBase' \in [WeKeys -> BaseFiles] /\ \A d \in WeKeys : GoesOn(weBase[d], weBase'[d])
      /\ \A d \in WeKeys : d # k => weBase'[d] = weBase[d]
      /\ weError' \in BOOLEAN
      /\ ~weError' => weBase'[k] = after /\ ~weError
  <2>1. WeAppend(k, "seen", after)
    BY <1>2 DEF after
  <2> QED BY ONLY <1>3, <1>5, <1>6, <1>7, <2>1, AppendIs
<1>9. weJob' \in Batches
  <2>1. [weJob EXCEPT !.keys = @ \ {k}] \in Batches
    BY ONLY <1>4, BatchLess
  <2> QED BY ONLY <1>2, <2>1
<1>10. /\ DOMAIN weStates' = DOMAIN weStates \cup {k}
       /\ \A d \in DOMAIN weStates : weStates'[d] = weStates[d]
       /\ k \notin DOMAIN weStates => weStates'[k] = "unreviewed"
  BY ONLY <1>2
<1>11. WeTyped'
  <2>1. /\ weEnrol \in [WeKeys -> [now : Contents, may : SUBSET Contents]]
        /\ weAnswered \in [WeKeys -> SUBSET Policies] /\ weDevices \subseteq WeKeys
        /\ DOMAIN weStates \subseteq WeKeys /\ weJobs \in Seq(Commands \cup Batches)
        /\ \A d \in DOMAIN weStates : weStates[d] \in Policies \cup {"corrupt"}
    BY <1>3 DEF WeTyped
  <2>2. "unreviewed" \in Policies
    BY DEF Policies
  <2>3. DOMAIN weStates' \subseteq WeKeys
        /\ \A d \in DOMAIN weStates' : weStates'[d] \in Policies \cup {"corrupt"}
    BY ONLY <1>5, <1>10, <2>1, <2>2
  <2> QED BY ONLY <1>1, <1>8, <1>9, <2>1, <2>3 DEF WeTyped
<1>12. WorkTrue'
  <2>1. weChanged' \subseteq DOMAIN weStates'
    BY ONLY <1>2, <1>4, <1>10
  <2> QED BY ONLY <1>1, <1>9, <2>1 DEF WorkTrue
<1>13. /\ PromisesKept' /\ FilesAnswered'
       /\ \A d \in WeKeys : weBase'[d].rewritten = "stopped" <=> weBase[d].rewritten = "stopped"
  BY <1>1, <1>8, <1>10, FilesGoOn
<1>14. WeAnswersHold'
  <2> SUFFICES ASSUME NEW d \in DOMAIN weStates', weBase'[d].rewritten # "stopped"
               PROVE  weStates'[d] \in weAnswered[d] \cup {"corrupt"}
    BY <1>1 DEF WeAnswersHold
  <2>1. d \in WeKeys /\ weBase[d].rewritten # "stopped"
    BY <1>11, <1>13 DEF WeTyped
  <2>2. CASE d \in DOMAIN weStates
    BY <1>1, <1>3, <1>10, <2>1, <2>2 DEF WeAnswersHold
  <2>3. CASE d \notin DOMAIN weStates
    <3>1. weStates'[d] = "unreviewed"
      BY <1>10, <2>3
    <3>2. ~Promised(d)
      BY <1>1, <1>3, <2>1, <2>3 DEF PromisesKept
    <3> QED BY <3>1, <3>2 DEF Promised
  <2> QED BY <2>2, <2>3
<1>15. MemoryTrue'
  <2>1. ASSUME ~weError'
        PROVE  /\ ~weError /\ weBase'[k].lines # <<>> /\ weBase'[k].lines[1] = "meta"
               /\ k \in DOMAIN weStates' => Loads(weBase'[k].lines)
    <3>1. ~weError /\ weBase'[k] = after
      BY ONLY <1>8, <2>1, Zenon
    <3>2. weBase[k].lines # <<>> /\ weBase[k].lines[1] = "meta"
      BY <1>1, <1>3, <1>5, <3>1 DEF MemoryTrue
    <3>3. Loads(after.lines)
      BY <1>7, <3>2
    <3> QED BY ONLY <3>1, <3>3 DEF Loads
  <2>2. DOMAIN weStates' \subseteq WeKeys
    BY <1>11 DEF WeTyped
  <2>3. \A d \in DOMAIN weStates' : weStates'[d] # "unreviewed" =>
          d \in DOMAIN weStates /\ weStates[d] = weStates'[d]
    BY ONLY <1>10
  <2>4. /\ DOMAIN weStates' \subseteq DOMAIN weStates \cup {k}
        /\ weDevices' \subseteq weDevices \cup {k}
    BY <1>1, <1>10
  <2> QED BY ONLY <1>1, <1>3, <1>5, <1>8, <2>1, <2>2, <2>3, <2>4, MemoryGoesOn
<1> QED BY <1>11, <1>12, <1>13, <1>14, <1>15 DEF WeInv

\* The device file is flushed before its enrolment is replaced.
LEMMA FlushInv == ASSUME WeInv, WeSaveFlush PROVE WeInv'
<1> DEFINE s == Saving
           after == Flushed(weBase[s])
<1>1. /\ weEnrol' = weEnrol /\ weAnswered' = weAnswered /\ weJobs' = weJobs
      /\ weDevices' = weDevices /\ weStates' = weStates /\ weError' = weError
      /\ weAlive' = weAlive /\ weAlive # "off" /\ weJob' = weJob /\ weChanged' = weChanged
      /\ weStep = "save" /\ weStep' = "replace" /\ NewPolicy # "corrupt"
  BY DEF WeSaveFlush, weMemory
<1>2. WeTyped /\ WorkTrue /\ MemoryTrue
  BY DEF WeInv
<1>3. s \in DOMAIN weStates /\ s \in WeKeys
  BY <1>1, <1>2, SavingIs
<1>4. weBase \in [WeKeys -> BaseFiles] /\ weBase[s] \in BaseFiles
  BY <1>2, <1>3 DEF WeTyped
<1>5. weBase' = [weBase EXCEPT ![s] = after]
  BY <1>1, <1>3, <1>4 DEF WeSaveFlush, BaseFiles, Flushed
<1>6. /\ GoesOn(weBase[s], after) /\ after.flushed = Len(after.lines)
      /\ after.rewritten # "pending" /\ after.lines = weBase[s].lines
  BY <1>4, FlushedGoesOn
<1> HIDE DEF after
<1>7. Saving' = s /\ NewPolicy' = NewPolicy
  BY <1>1 DEF Saving, NewPolicy, KeyOf
<1> HIDE DEF s
<1>8. /\ weBase' \in [WeKeys -> BaseFiles] /\ \A d \in WeKeys : GoesOn(weBase[d], weBase'[d])
      /\ \A d \in WeKeys : d # s => weBase'[d] = weBase[d]
      /\ weBase'[s] = after
  <2>1. weBase'[s] = after
    BY ONLY <1>3, <1>4, <1>5
  <2> QED BY ONLY <1>3, <1>4, <1>5, <1>6, <2>1, OneGoesOn
<1>9. \A d \in WeKeys : weBase'[d].lines = weBase[d].lines
  BY ONLY <1>3, <1>6, <1>8
<1>10. WeTyped'
  BY ONLY <1>1, <1>2, <1>8 DEF WeTyped
<1>11. /\ PromisesKept' /\ FilesAnswered'
       /\ \A d \in WeKeys : weBase'[d].rewritten = "stopped" <=> weBase[d].rewritten = "stopped"
  BY <1>1, <1>8, FilesGoOn
<1>12. DOMAIN weStates \subseteq WeKeys
  BY <1>2 DEF WeTyped
<1>13. WeAnswersHold'
  <2>1. WeAnswersHold
    BY DEF WeInv
  <2> QED BY ONLY <1>1, <1>11, <1>12, <2>1 DEF WeAnswersHold
<1>14. MemoryTrue'
  BY ONLY <1>1, <1>2, <1>9, <1>12 DEF MemoryTrue
<1>15. WorkTrue'
  <2>1. /\ weChanged \subseteq DOMAIN weStates
        /\ \/ weJob \in Batches /\ weChanged # {}
           \/ /\ weJob \in Commands /\ weChanged = {}
              /\ KeyOf(weJob) \in DOMAIN weStates /\ Loads(weBase[KeyOf(weJob)].lines)
    BY ONLY <1>1, <1>2 DEF WorkTrue
  <2>2. KeyOf(weJob)' = KeyOf(weJob)
    BY <1>1 DEF KeyOf
  <2>3. KeyOf(weJob) \in DOMAIN weStates => weBase'[KeyOf(weJob)].lines = weBase[KeyOf(weJob)].lines
    BY ONLY <1>9, <1>12
  <2>4. \/ weJob' \in Batches /\ weChanged' # {}
        \/ /\ weJob' \in Commands /\ weChanged' = {}
           /\ KeyOf(weJob)' \in DOMAIN weStates' /\ Loads(weBase'[KeyOf(weJob)'].lines)
    BY ONLY <1>1, <2>1, <2>2, <2>3
  <2>5. /\ NewPolicy' # "corrupt" /\ weBase'[Saving'].flushed = Len(weBase'[Saving'].lines)
        /\ weBase'[Saving'].rewritten # "pending"
    BY ONLY <1>1, <1>6, <1>7, <1>8
  <2>6. weChanged' \subseteq DOMAIN weStates' /\ weStep' = "replace"
    BY ONLY <1>1, <2>1
  <2> QED BY ONLY <2>4, <2>5, <2>6 DEF WorkTrue
<1> QED BY <1>10, <1>11, <1>13, <1>14, <1>15 DEF WeInv

\* What a save is about: a policy answered before, or a command's.
LEMMA SavesAnswered ==
  ASSUME WeInv, weAlive # "off", weStep \in {"replace", "confirm"},
         weBase[Saving].rewritten # "stopped"
  PROVE  /\ NewPolicy \in Policies /\ FileShows(NewPolicy) = NewPolicy
         /\ weJob.kind = "batch" => NewPolicy \in weAnswered[Saving]
<1>1. WeTyped /\ WorkTrue /\ WeAnswersHold
  BY DEF WeInv
<1>2. /\ Saving \in DOMAIN weStates /\ NewPolicy \in Policies \cup {"corrupt"}
      /\ weJob.kind = "batch" => NewPolicy = weStates[Saving]
  BY <1>1, SavingIs
<1>3. NewPolicy # "corrupt"
  BY <1>1 DEF WorkTrue
<1>4. weStates[Saving] \in weAnswered[Saving] \cup {"corrupt"}
  BY <1>1, <1>2 DEF WeAnswersHold
<1>5. NewPolicy # "none" /\ NewPolicy \in Policies
  BY ONLY <1>2, <1>3 DEF Policies
<1> QED BY ONLY <1>2, <1>3, <1>4, <1>5 DEF FileShows

\* The new enrolment file is in place.
LEMMA ReplaceInv == ASSUME WeInv, WeReplace PROVE WeInv'
<1> DEFINE s == Saving
           q == NewPolicy
<1>1. /\ weBase' = weBase /\ weAnswered' = weAnswered /\ weJobs' = weJobs
      /\ weDevices' = weDevices /\ weStates' = weStates /\ weError' = weError
      /\ weAlive' = weAlive /\ weAlive # "off" /\ weJob' = weJob /\ weChanged' = weChanged
      /\ weStep = "replace" /\ weStep' = "confirm"
  BY DEF WeReplace, weMemory
<1>2. WeTyped /\ WorkTrue /\ MemoryTrue /\ PromisesKept /\ FilesAnswered /\ WeAnswersHold
  BY DEF WeInv
<1>3. /\ s \in DOMAIN weStates /\ s \in WeKeys
      /\ weJob.kind = "batch" => q = weStates[s]
      /\ weJob.kind # "batch" =>
           /\ weJob \in Commands /\ s = KeyOf(weJob) /\ q = weJob.policy
           /\ Loads(weBase[s].lines)
      /\ q \in Policies \cup {"corrupt"}
  BY <1>1, <1>2, SavingIs
<1>4. /\ q # "corrupt" /\ weBase[s].flushed = Len(weBase[s].lines)
      /\ weBase[s].rewritten # "pending"
  BY <1>1, <1>2 DEF WorkTrue
<1>5. weEnrol' = [weEnrol EXCEPT ![s] = [now |-> q, may |-> @.may \cup {q}]]
  BY DEF WeReplace
<1>6. Saving' = s /\ NewPolicy' = q /\ KeyOf(weJob)' = KeyOf(weJob)
  BY <1>1 DEF Saving, NewPolicy, KeyOf
<1> HIDE DEF s, q
<1>7. /\ weEnrol \in [WeKeys -> [now : Contents, may : SUBSET Contents]]
      /\ q \in Contents /\ weBase[s] \in BaseFiles
  BY <1>2, <1>3 DEF WeTyped, Contents
<1>8. /\ weEnrol' \in [WeKeys -> [now : Contents, may : SUBSET Contents]]
      /\ weEnrol'[s].now = q /\ weEnrol'[s].may = weEnrol[s].may \cup {q}
      /\ \A k \in WeKeys : k # s => weEnrol'[k] = weEnrol[k]
  BY ONLY <1>3, <1>5, <1>7
<1>9. WeTyped'
  BY ONLY <1>1, <1>2, <1>8 DEF WeTyped
<1>10. MemoryTrue' /\ WeAnswersHold'
  BY ONLY <1>1, <1>2 DEF MemoryTrue, WeAnswersHold
<1>11. WorkTrue'
  <2>1. /\ weChanged \subseteq DOMAIN weStates
        /\ \/ weJob \in Batches /\ weChanged # {}
           \/ /\ weJob \in Commands /\ weChanged = {}
              /\ KeyOf(weJob) \in DOMAIN weStates /\ Loads(weBase[KeyOf(weJob)].lines)
    BY ONLY <1>1, <1>2 DEF WorkTrue
  <2>2. weEnrol'[s].now = q /\ q \in weEnrol'[s].may
    BY ONLY <1>8
  <2> QED BY ONLY <1>1, <1>4, <1>6, <2>1, <2>2 DEF WorkTrue
<1>12. PromisesKept'
  <2> SUFFICES ASSUME NEW k \in WeKeys, weBase[k].rewritten # "stopped", Promised(k)'
               PROVE  Kept(weBase[k]) /\ k \in DOMAIN weStates
    BY <1>1 DEF PromisesKept
  <2>1. CASE Promised(k)
    BY <1>1, <1>2, <2>1 DEF PromisesKept
  <2>2. CASE ~Promised(k)
    <3>1. k = s /\ q \in Reviewed
      BY ONLY <1>1, <1>8, <2>2, Promised(k)', k \in WeKeys DEF Promised
    <3>2. Loads(weBase[s].lines)
      <4>1. CASE weJob.kind = "batch"
        <5>1. weStates[s] # "unreviewed"
          BY ONLY <1>3, <3>1, <4>1 DEF Reviewed
        <5> QED BY ONLY <1>1, <1>2, <1>3, <5>1 DEF MemoryTrue
      <4> QED BY <1>3, <4>1
    <3>3. Kept(weBase[s])
      BY ONLY <1>4, <1>7, <3>2, FlushedIsKept
    <3> QED BY ONLY <1>3, <3>1, <3>3
  <2> QED BY <2>1, <2>2
<1>13. FilesAnswered'
  <2> SUFFICES ASSUME NEW k \in WeKeys
               PROVE  /\ weEnrol'[k].now \in weEnrol'[k].may
                      /\ weBase[k].rewritten # "stopped" =>
                           \A p \in weEnrol'[k].may :
                             \/ FileShows(p) \in weAnswered[k] \cup {"corrupt"}
                             \/ UnderWay(k, p)'
    BY <1>1 DEF FilesAnswered
  <2>1. \A p : ~UnderWay(k, p)
    BY <1>1 DEF UnderWay
  <2>2. /\ weEnrol[k].now \in weEnrol[k].may
        /\ weBase[k].rewritten # "stopped" =>
             \A p \in weEnrol[k].may : FileShows(p) \in weAnswered[k] \cup {"corrupt"}
    BY <1>2, <2>1 DEF FilesAnswered
  <2>3. CASE k # s
    BY ONLY <1>8, <2>2, <2>3, k \in WeKeys
  <2>4. CASE k = s
    <3>1. ASSUME weBase[s].rewritten # "stopped"
          PROVE  \/ FileShows(q) \in weAnswered[s]
                 \/ weJob \in Commands /\ s = KeyOf(weJob) /\ q = weJob.policy
      <4>1. FileShows(q) = q /\ (weJob.kind = "batch" => q \in weAnswered[s])
        BY <1>1, <3>1, SavesAnswered DEF s, q
      <4> QED BY ONLY <1>3, <4>1
    <3>2. \A p : weJob \in Commands /\ s = KeyOf(weJob) /\ p = weJob.policy /\ k = s
                  => UnderWay(k, p)'
      BY ONLY <1>1, <1>6 DEF UnderWay
    <3> QED BY ONLY <1>8, <2>2, <2>4, <3>1, <3>2
  <2> QED BY <2>3, <2>4
<1> QED BY <1>9, <1>10, <1>11, <1>12, <1>13 DEF WeInv

\* A save is answered: memory has the policy, and the answers allow it.  What was
\* answered before still holds, or this policy alone does.
LEMMA AnsweredStep ==
  ASSUME WeInv, weAlive # "off", weStep = "confirm", weAlive' = weAlive, SaveEnds,
         weStates' = [weStates EXCEPT ![Saving] = NewPolicy], weBase' = weBase,
         weDevices' = weDevices, weError' = weError, weJobs' = weJobs,
         weEnrol' \in [WeKeys -> [now : Contents, may : SUBSET Contents]],
         weAnswered' \in [WeKeys -> SUBSET Policies],
         \A k \in WeKeys : /\ weEnrol'[k].now \in weEnrol'[k].may
                           /\ weEnrol'[k].may \subseteq weEnrol[k].may,
         \A k \in WeKeys : k # Saving => weAnswered'[k] = weAnswered[k],
         weJob.kind # "batch" => NewPolicy \in weAnswered'[Saving],
         \/ weAnswered[Saving] \subseteq weAnswered'[Saving]
         \/ weJob.kind # "batch" /\ weEnrol'[Saving].may = {NewPolicy}
  PROVE  WeInv'
<1> DEFINE s == Saving
           q == NewPolicy
<1>1. /\ WeTyped /\ WorkTrue /\ MemoryTrue /\ PromisesKept /\ FilesAnswered /\ WeAnswersHold
      /\ weStep \in {"save", "replace", "confirm"}
  BY DEF WeInv
<1>2. /\ s \in DOMAIN weStates /\ s \in WeKeys /\ q \in Policies \cup {"corrupt"}
      /\ weJob.kind = "batch" => weJob \in Batches /\ q = weStates[s]
      /\ weJob.kind # "batch" =>
           /\ weJob \in Commands /\ s = KeyOf(weJob) /\ q = weJob.policy
           /\ weJob.policy \in Reviewed /\ Loads(weBase[s].lines)
  BY <1>1, SavingIs
<1>3. DOMAIN weStates' = DOMAIN weStates /\ DOMAIN weStates \subseteq WeKeys
  BY <1>1 DEF WeTyped
<1>4. WorkTrue' /\ weJob' \in Commands \cup Batches \cup {NoJob}
  BY <1>1, <1>3, SaveEndsWork
<1>5. /\ weBase[s].rewritten # "stopped" =>
           q \in Policies /\ FileShows(q) = q /\ (weJob.kind = "batch" => q \in weAnswered[s])
      /\ q \in weEnrol[s].may
  BY <1>1, SavesAnswered DEF WorkTrue
<1>6. \A k, p : UnderWay(k, p) => k = s /\ p = q
  <2>1. weJob \in Commands => weJob.kind # "batch"
    <3>1. weJob \in Commands \cup Batches \cup {NoJob}
      BY <1>1 DEF WeTyped
    <3>2. weJob \in Commands => weJob.kind = "command"
      BY ONLY <3>1, JobIs
    <3> QED BY <3>2
  <2> HIDE DEF s, q
  <2> QED BY ONLY <1>2, <2>1 DEF UnderWay
<1>7. \A k, p : ~UnderWay(k, p)'
  <2>1. weStep' # "confirm"
    BY DEF SaveEnds
  <2> QED BY ONLY <2>1 DEF UnderWay
<1>8. /\ weStates'[s] = q /\ weStates' = [weStates EXCEPT ![s] = q]
      /\ \A k \in DOMAIN weStates : k # s => weStates'[k] = weStates[k]
  <2>1. weStates' = [weStates EXCEPT ![s] = q]
    OBVIOUS
  <2> HIDE DEF s, q
  <2> QED BY ONLY <1>2, <2>1
<1>9. /\ \A k \in WeKeys : k # s => weAnswered'[k] = weAnswered[k]
      /\ weJob.kind # "batch" => q \in weAnswered'[s]
      /\ \/ weAnswered[s] \subseteq weAnswered'[s]
         \/ weJob.kind # "batch" /\ weEnrol'[s].may = {q}
  OBVIOUS
<1>10. \A k \in WeKeys : /\ weEnrol'[k].now \in weEnrol'[k].may
                         /\ weEnrol'[k].may \subseteq weEnrol[k].may
  OBVIOUS
<1> HIDE DEF s, q
<1>11. weBase[s].rewritten # "stopped" => q \in weAnswered'[s] /\ FileShows(q) = q
  BY ONLY <1>5, <1>9
<1>12. WeTyped'
  <2>1. \A k \in DOMAIN weStates' : weStates'[k] \in Policies \cup {"corrupt"}
    BY <1>1, <1>2, <1>3, <1>8 DEF WeTyped
  <2> QED BY <1>1, <1>3, <1>4, <2>1 DEF WeTyped
<1>13. MemoryTrue'
  <2>1. \A k \in DOMAIN weStates' : weStates'[k] # "unreviewed" => Loads(weBase[k].lines)
    <3> SUFFICES ASSUME NEW k \in DOMAIN weStates, weStates'[k] # "unreviewed"
                 PROVE  Loads(weBase[k].lines)
      BY <1>3
    <3>1. CASE weStates[k] = weStates'[k]
      BY <1>1, <3>1 DEF MemoryTrue
    <3>2. CASE k = s /\ weJob.kind # "batch"
      BY <1>2, <3>2
    <3>3. k = s /\ weJob.kind = "batch" => weStates[k] = weStates'[k]
      BY ONLY <1>2, <1>8
    <3> QED BY ONLY <1>8, <3>1, <3>2, <3>3, k \in DOMAIN weStates
  <2>2. /\ weAlive' = weAlive /\ weAlive # "off" /\ weError' = weError /\ weBase' = weBase
        /\ weDevices' = weDevices
    OBVIOUS
  <2> QED BY ONLY <1>1, <1>3, <2>1, <2>2, Zenon DEF MemoryTrue
<1>14. PromisesKept'
  <2>1. ASSUME NEW k \in WeKeys, Promised(k)' PROVE Promised(k)
    <3>1. CASE weEnrol'[k].may \cap Reviewed # {}
      BY <1>10, <3>1 DEF Promised
    <3>2. CASE "unreviewed" \notin weAnswered'[k]
      <4>1. CASE weAnswered[k] \subseteq weAnswered'[k]
        BY <3>2, <4>1 DEF Promised
      <4>2. CASE ~(weAnswered[k] \subseteq weAnswered'[k])
        <5>1. k = s /\ q \in Reviewed
          BY ONLY <1>2, <1>9, <4>2, k \in WeKeys
        <5> QED BY <1>5, <5>1 DEF Promised
      <4> QED BY <4>1, <4>2
    <3> QED BY <2>1, <3>1, <3>2 DEF Promised
  <2>2. weBase' = weBase /\ weAlive' = weAlive
    OBVIOUS
  <2> QED BY ONLY <1>1, <1>3, <2>1, <2>2 DEF PromisesKept
<1>15. FilesAnswered'
  <2> SUFFICES ASSUME NEW k \in WeKeys, weBase[k].rewritten # "stopped", NEW p \in weEnrol'[k].may
               PROVE  FileShows(p) \in weAnswered'[k] \cup {"corrupt"}
    BY <1>10 DEF FilesAnswered
  <2>1. FileShows(p) \in weAnswered[k] \cup {"corrupt"} \/ UnderWay(k, p)
    BY <1>1, <1>10 DEF FilesAnswered
  <2>2. CASE k = s /\ p = q
    BY <1>11, <2>2
  <2>3. CASE k = s /\ p # q
    BY <1>6, <1>9, <2>1, <2>3
  <2>4. CASE k # s
    BY <1>6, <1>9, <2>1, <2>4
  <2> QED BY <2>2, <2>3, <2>4
<1>16. WeAnswersHold'
  <2> SUFFICES ASSUME NEW k \in DOMAIN weStates, weBase[k].rewritten # "stopped"
               PROVE  weStates'[k] \in weAnswered'[k] \cup {"corrupt"}
    BY <1>3 DEF WeAnswersHold
  <2>1. k \in WeKeys
    BY <1>3
  <2>2. CASE k = s
    BY <1>8, <1>11, <2>2
  <2>3. CASE k # s
    BY <1>1, <1>8, <1>9, <2>1, <2>3 DEF WeAnswersHold
  <2> QED BY <2>2, <2>3
<1> QED BY <1>4, <1>12, <1>13, <1>14, <1>15, <1>16 DEF WeInv

\* What an answer does to what the answers allow.
LEMMA AnswerIs ==
  ASSUME WeTyped, NEW s \in WeKeys, NEW S \in SUBSET Policies,
         \/ weAnswered' = weAnswered
         \/ weAnswered' = [weAnswered EXCEPT ![s] = S]
  PROVE  /\ weAnswered' \in [WeKeys -> SUBSET Policies]
         /\ \A k \in WeKeys : k # s => weAnswered'[k] = weAnswered[k]
         /\ weAnswered'[s] = S \/ weAnswered' = weAnswered
<1>1. weAnswered \in [WeKeys -> SUBSET Policies]
  BY DEF WeTyped
<1> QED BY <1>1

\* "Saved": the directory is flushed.
LEMMA ConfirmInv == ASSUME WeInv, WeConfirm PROVE WeInv'
<1>1. /\ weBase' = weBase /\ weDevices' = weDevices /\ weError' = weError /\ weJobs' = weJobs
      /\ weAlive' = weAlive /\ weAlive # "off" /\ weStep = "confirm" /\ SaveEnds
      /\ weStates' = [weStates EXCEPT ![Saving] = NewPolicy]
      /\ weEnrol' = [weEnrol EXCEPT ![Saving].may = {NewPolicy}]
      /\ weJob.kind = "batch" => weAnswered' = weAnswered
      /\ weJob.kind # "batch" => weAnswered' = [weAnswered EXCEPT ![Saving] = {NewPolicy}]
  BY DEF WeConfirm, Commits, AnswerWith
<1> DEFINE s == Saving
           q == NewPolicy
<1>2. WeTyped /\ WorkTrue /\ FilesAnswered /\ weStep \in {"save", "replace", "confirm"}
  BY <1>1 DEF WeInv
<1>3. /\ s \in WeKeys /\ q \in Policies \cup {"corrupt"}
      /\ q # "corrupt" /\ weEnrol[s].now = q /\ q \in weEnrol[s].may
  BY <1>1, <1>2, SavingIs DEF WorkTrue
<1>4. weEnrol \in [WeKeys -> [now : Contents, may : SUBSET Contents]]
  BY <1>2 DEF WeTyped
<1>5. q \in Policies /\ {q} \in SUBSET Contents
  BY <1>3 DEF Contents
<1>6. /\ weEnrol' = [weEnrol EXCEPT ![s].may = {q}]
      /\ weAnswered' = weAnswered \/ weAnswered' = [weAnswered EXCEPT ![s] = {q}]
      /\ weJob.kind # "batch" => weAnswered' = [weAnswered EXCEPT ![s] = {q}]
      /\ weJob.kind = "batch" => weAnswered' = weAnswered
  BY <1>1
<1> HIDE DEF s, q
<1>7. /\ weEnrol' \in [WeKeys -> [now : Contents, may : SUBSET Contents]]
      /\ weEnrol'[s].now = weEnrol[s].now /\ weEnrol'[s].may = {q}
      /\ \A k \in WeKeys : k # s => weEnrol'[k] = weEnrol[k]
  BY ONLY <1>3, <1>4, <1>5, <1>6
<1>8. \A k \in WeKeys : /\ weEnrol'[k].now \in weEnrol'[k].may
                        /\ weEnrol'[k].may \subseteq weEnrol[k].may
  <2>1. \A k \in WeKeys : weEnrol[k].now \in weEnrol[k].may
    BY <1>2 DEF FilesAnswered
  <2> QED BY ONLY <1>3, <1>7, <2>1
<1>9. /\ weAnswered' \in [WeKeys -> SUBSET Policies]
      /\ \A k \in WeKeys : k # s => weAnswered'[k] = weAnswered[k]
      /\ weJob.kind # "batch" => weAnswered'[s] = {q}
  <2>1. weAnswered \in [WeKeys -> SUBSET Policies]
    BY <1>2 DEF WeTyped
  <2> QED BY ONLY <1>3, <1>5, <1>6, <2>1
<1>10. /\ weJob.kind # "batch" => q \in weAnswered'[s]
       /\ \/ weAnswered[s] \subseteq weAnswered'[s]
          \/ weJob.kind # "batch" /\ weEnrol'[s].may = {q}
  BY ONLY <1>6, <1>7, <1>9
<1> QED BY <1>1, <1>7, <1>8, <1>9, <1>10, AnsweredStep DEF s, q

\* "Applied, durability UNCONFIRMED": the directory may not be flushed.
LEMMA UnconfirmedInv == ASSUME WeInv, WeUnconfirmed PROVE WeInv'
<1>1. /\ weBase' = weBase /\ weEnrol' = weEnrol
      /\ weDevices' = weDevices /\ weError' = weError /\ weJobs' = weJobs
      /\ weAlive' = weAlive /\ weAlive # "off" /\ weStep = "confirm" /\ SaveEnds
      /\ weStates' = [weStates EXCEPT ![Saving] = NewPolicy]
      /\ weJob.kind = "batch" => weAnswered' = weAnswered
      /\ weJob.kind # "batch" =>
           weAnswered' = [weAnswered EXCEPT ![Saving] = weAnswered[Saving] \cup {NewPolicy}]
  BY DEF WeUnconfirmed, Commits, AnswerWith, weFiles
<1> DEFINE s == Saving
           q == NewPolicy
<1>2. WeTyped /\ WorkTrue /\ FilesAnswered /\ weStep \in {"save", "replace", "confirm"}
  BY <1>1 DEF WeInv
<1>3. s \in WeKeys /\ q \in Policies
  <2>1. s \in WeKeys /\ q \in Policies \cup {"corrupt"} /\ q # "corrupt"
    BY <1>1, <1>2, SavingIs DEF WorkTrue
  <2> QED BY <2>1
<1>4. /\ weEnrol \in [WeKeys -> [now : Contents, may : SUBSET Contents]]
      /\ weAnswered \in [WeKeys -> SUBSET Policies]
  BY <1>2 DEF WeTyped
<1>5. /\ weJob.kind # "batch" => weAnswered' = [weAnswered EXCEPT ![s] = weAnswered[s] \cup {q}]
      /\ weJob.kind = "batch" => weAnswered' = weAnswered
  BY <1>1
<1>6. \A k \in WeKeys : /\ weEnrol'[k].now \in weEnrol'[k].may
                        /\ weEnrol'[k].may \subseteq weEnrol[k].may
  BY <1>1, <1>2 DEF FilesAnswered
<1> HIDE DEF s, q
<1>7. /\ weAnswered' \in [WeKeys -> SUBSET Policies]
      /\ \A k \in WeKeys : k # s => weAnswered'[k] = weAnswered[k]
      /\ weJob.kind # "batch" => q \in weAnswered'[s]
      /\ weAnswered[s] \subseteq weAnswered'[s]
  BY ONLY <1>3, <1>4, <1>5
<1>8. weEnrol' \in [WeKeys -> [now : Contents, may : SUBSET Contents]]
  BY <1>1, <1>4
<1> QED BY <1>1, <1>6, <1>7, <1>8, AnsweredStep DEF s, q

-----------------------------------------------------------------------------
\* Whatever step is taken, crash and failed write included, the invariant holds after it.
LEMMA WeNextInv == WeInv /\ [WeNext]_weVars => WeInv'
<1> SUFFICES ASSUME WeInv, [WeNext]_weVars PROVE WeInv'
  OBVIOUS
<1>1. CASE UNCHANGED weVars
  <2>1. /\ UNCHANGED <<weFiles, weMemory, weWork, weAnswered>>
        /\ weAlive' = weAlive /\ weJobs' = weJobs /\ weJob' = weJob /\ weStep' = weStep
    BY <1>1 DEF weVars, weWork
  <2>2. WorkTrue'
    BY <2>1, WorkStays DEF WeInv
  <2>3. weJobs' \in Seq(Commands \cup Batches) /\ weJob' \in Commands \cup Batches \cup {NoJob}
    BY <2>1 DEF WeInv, WeTyped
  <2>4. WeTyped' /\ MemoryTrue' /\ PromisesKept' /\ FilesAnswered' /\ WeAnswersHold'
    <3>1. /\ weBase' = weBase /\ weEnrol' = weEnrol /\ weDevices' = weDevices
          /\ weStates' = weStates /\ weError' = weError /\ weAnswered' = weAnswered
      BY <2>1 DEF weFiles, weMemory
    <3>2. \A k \in WeKeys : Promised(k)' = Promised(k)
      BY <3>1 DEF Promised
    <3>3. \A k, p : UnderWay(k, p)' <=> UnderWay(k, p)
      BY <2>1 DEF UnderWay, KeyOf
    <3>4. WeTyped /\ MemoryTrue /\ PromisesKept /\ FilesAnswered /\ WeAnswersHold
      BY DEF WeInv
    <3>5. WeTyped'
      BY ONLY <2>1, <3>1, <3>4 DEF WeTyped
    <3>6. MemoryTrue'
      BY ONLY <2>1, <3>1, <3>4 DEF MemoryTrue
    <3>7. PromisesKept'
      BY ONLY <2>1, <3>1, <3>2, <3>4 DEF PromisesKept
    <3>8. FilesAnswered'
      BY ONLY <3>1, <3>3, <3>4 DEF FilesAnswered
    <3>9. WeAnswersHold'
      BY ONLY <2>1, <3>1, <3>4 DEF WeAnswersHold
    <3> QED BY <3>5, <3>6, <3>7, <3>8, <3>9
  <2> QED BY <2>2, <2>4 DEF WeInv
<1>2. CASE WeNext
  BY <1>2, StartInv, StopInv, CrashInv, DamageInv, QueueInv, TakeInv, NameInv, RecordInv,
     DoneInv, ApplyInv, NotSavedInv, FlushInv, ReplaceInv, ConfirmInv, SkipInv, UnconfirmedInv
     DEF WeNext, WeWorker
<1> QED BY <1>1, <1>2

\* The invariant: what the files, the memory, the worker and the answers have of a
\* device agree.
THEOREM WeInvHolds == WeSpec => []WeInv
BY WeInitInv, WeNextInv, PTL DEF WeSpec

\* What the invariant says of a file that may hold a reviewed policy: its device
\* loads after any stop.
LEMMA ReviewedLoads == WeInv => WePolicyHasIdentity
<1> SUFFICES ASSUME WeInv, NEW k \in WeKeys,
                    weEnrol[k].may \cap Reviewed # {}, weBase[k].rewritten = "no",
                    NEW b \in Survivors(weBase[k])
             PROVE  Loads(b.lines)
  BY DEF WePolicyHasIdentity, Reviewed
<1>1. weBase[k] \in BaseFiles
  BY DEF WeInv, WeTyped
<1>2. Kept(weBase[k])
  BY DEF WeInv, PromisesKept, Promised
<1>3. FlushedLoads(weBase[k])
  BY <1>2 DEF Kept
<1>4. Kept(b)
  BY ONLY <1>1, <1>3, b \in Survivors(weBase[k]), SurvivorsLoad
<1> QED BY <1>4 DEF Kept

\* Whatever the crashes, failed writes and captures, for any addresses and any number
\* of jobs: what memory shows of a device was answered, and a device whose file may
\* hold a reviewed policy is found again (wifi_enrolment.cpp, apply and save).
THEOREM WeSoundHolds == WeSpec => []WeSound
<1>1. WeInv => WeSound
  BY ReviewedLoads DEF WeInv, WeSound
<1> QED BY <1>1, WeInvHolds, PTL

-----------------------------------------------------------------------------
(* The short-range list and its probable devices *)

\* What a list is made of.
SrDevice ==
  [order : Nat, group : Nat, successor : Addresses \cup {NoAddress}, packets : Nat,
   first : Nat, last : Nat, checked : BOOLEAN]
Lists == [Addresses -> SrDevice]
On(list) == {a \in Addresses : list[a].order > 0}

\* a was heard for the last time before b was first, and another address follows a.
GaveWay(list, a, b) ==
  /\ list[a].last < list[b].first /\ list[a].order < list[b].order
  /\ list[a].successor # NoAddress
  /\ list[a].successor = b \/ list[list[a].successor].last < list[b].first

\* A listed address, and the one that follows it.
OneOk(list, a, next, now) ==
  /\ 1 <= list[a].group /\ list[a].group <= list[a].order /\ list[a].order < next
  /\ list[a].first <= list[a].last /\ list[a].last <= now
  /\ list[a].checked # TRUE => list[a].group = list[a].order
  /\ list[a].successor # NoAddress =>
       /\ list[list[a].successor].order > 0
       /\ list[list[a].successor].group = list[a].group
       /\ list[a].last < list[list[a].successor].first
       /\ list[a].order < list[list[a].successor].order

\* Two listed addresses.
TwoOk(list, a, b) ==
  /\ list[a].order # list[b].order
  /\ list[a].group = list[b].order => list[b].group = list[b].order
  /\ list[a].group = list[b].group => GaveWay(list, a, b) \/ GaveWay(list, b, a)

\* The list, with the next order to be given and the capture at work.
GroupsOk(list, next, now) ==
  /\ list \in Lists /\ next \in Nat /\ now \in Nat /\ 1 <= next
  /\ \A a \in Addresses \ On(list) : list[a] = NoDevice
  /\ \A a \in On(list) : OneOk(list, a, next, now)
  /\ \A a, b \in On(list) : a # b => TwoOk(list, a, b)

\* Of some addresses, one was entered last.
LEMMA Latest ==
  ASSUME NEW T \in SUBSET Addresses, T # {}, NEW f \in [Addresses -> Nat]
  PROVE  \E c \in T : \A d \in T : f[d] <= f[c]
<1> DEFINE Above(c) == {d \in T : f[c] < f[d]}
           R == StrictSubsetOrdering(T)
           F == {Above(c) : c \in T}
<1>1. IsFiniteSet(T)
  BY ShortRangeAssumption, FS_Subset
<1>2. IsWellFoundedOn(R, FiniteSubsetsOf(T))
  BY <1>1, FS_StrictSubsetOrderingWellFounded
<1>3. F \subseteq FiniteSubsetsOf(T) /\ F # {}
  <2>1. \A c \in T : Above(c) \subseteq T
    OBVIOUS
  <2>2. \A U \in SUBSET T : IsFiniteSet(U)
    BY <1>1, FS_Subset
  <2> HIDE DEF Above
  <2> QED BY <2>1, <2>2 DEF FiniteSubsetsOf
<1> HIDE DEF R, F
<1>4. PICK m \in F : \A n \in F : <<n, m>> \notin R
  BY ONLY <1>2, <1>3, WFMin
<1>5. PICK c \in T : m = Above(c)
  BY DEF F
<1>6. ASSUME NEW d \in T, ~(f[d] <= f[c]) PROVE FALSE
  <2>1. d \in Above(c) /\ d \notin Above(d) /\ Above(d) \subseteq Above(c) /\ f[c] < f[d]
    BY <1>6
  <2>2. Above(d) \in F
    BY DEF F
  <2>3. <<Above(d), Above(c)>> \in R
    BY <2>1 DEF R, StrictSubsetOrdering
  <2> QED BY <1>4, <1>5, <2>2, <2>3
<1> QED BY <1>6

\* What a device of the list is made of.
LEMMA DeviceIs ==
  ASSUME NEW list \in Lists
  PROVE  \A a \in Addresses :
           /\ list[a] \in SrDevice
           /\ list[a].order \in Nat /\ list[a].group \in Nat /\ list[a].packets \in Nat
           /\ list[a].first \in Nat /\ list[a].last \in Nat
           /\ list[a].successor \in Addresses \cup {NoAddress} /\ list[a].checked \in BOOLEAN
  BY DEF Lists, SrDevice

\* A listed address that has a successor: it is listed.
LEMMA SuccessorIs ==
  ASSUME NEW list, NEW next, NEW now, GroupsOk(list, next, now), NEW a \in On(list),
         list[a].successor # NoAddress
  PROVE  /\ list[a].successor \in On(list) /\ list[a].successor # a
         /\ list[list[a].successor].group = list[a].group
         /\ list[a].last < list[list[a].successor].first
         /\ list[a].order < list[list[a].successor].order
<1>1. OneOk(list, a, next, now) /\ a \in Addresses /\ list \in Lists
  BY DEF GroupsOk, On
<1>2. list[a].successor \in Addresses /\ list[a].order \in Nat
  BY <1>1, DeviceIs
<1> QED BY <1>1, <1>2 DEF OneOk, On

\* The same device with the same successor is as well off in another list.
LEMMA OneKept ==
  ASSUME NEW f, NEW g, NEW a, NEW next, NEW now, OneOk(f, a, next, now), g[a] = f[a],
         f[a].successor # NoAddress => g[f[a].successor] = f[f[a].successor]
  PROVE  OneOk(g, a, next, now)
  BY DEF OneOk

\* The same two devices with the same successors are as well off in another list.
LEMMA TwoKept ==
  ASSUME NEW f, NEW g, NEW a, NEW b, TwoOk(f, a, b), g[a] = f[a], g[b] = f[b],
         f[a].successor # NoAddress => g[f[a].successor] = f[f[a].successor],
         f[b].successor # NoAddress => g[f[b].successor] = f[f[b].successor]
  PROVE  TwoOk(g, a, b)
<1>1. GaveWay(f, a, b) => GaveWay(g, a, b)
  BY DEF GaveWay
<1>2. GaveWay(f, b, a) => GaveWay(g, b, a)
  BY DEF GaveWay
<1> QED BY <1>1, <1>2 DEF TwoOk

\* The device heard least recently is taken off the list: no other is followed by it.
LEMMA GoneOk ==
  ASSUME NEW list, NEW next, NEW now, GroupsOk(list, next, now), NEW x \in On(list),
         \A b \in On(list) : list[x].last <= list[b].last
  PROVE  GroupsOk([list EXCEPT ![x] = NoDevice], next, now)
<1> DEFINE g == [list EXCEPT ![x] = NoDevice]
<1>1. list \in Lists /\ x \in Addresses
  BY DEF GroupsOk, On
<1>2. /\ NoDevice \in SrDevice /\ NoDevice.order = 0
  BY DEF NoDevice, SrDevice
<1>3. g \in Lists /\ g[x] = NoDevice /\ \A a \in Addresses : a # x => g[a] = list[a]
  BY <1>1, <1>2 DEF Lists
<1> HIDE DEF g
<1>4. On(g) = On(list) \ {x}
  BY <1>2, <1>3 DEF On
<1>5. ASSUME NEW a \in On(list) PROVE list[a].successor # x
  <2> SUFFICES ASSUME list[a].successor = x PROVE FALSE
    OBVIOUS
  <2>1. x # NoAddress /\ a \in Addresses
    BY <1>1, ShortRangeAssumption DEF On
  <2>2. list[a].last < list[x].first
    BY <2>1, SuccessorIs
  <2>3. list[x].first <= list[x].last
    BY DEF GroupsOk, OneOk
  <2>4. list[x].first \in Nat /\ list[x].last \in Nat /\ list[a].last \in Nat
    BY <1>1, <2>1, DeviceIs
  <2>5. list[x].last <= list[a].last
    OBVIOUS
  <2> QED BY ONLY <2>2, <2>3, <2>4, <2>5
<1>6. ASSUME NEW a \in On(g)
      PROVE  /\ a \in On(list) /\ g[a] = list[a]
             /\ list[a].successor # NoAddress => g[list[a].successor] = list[list[a].successor]
  <2>1. a \in On(list) /\ g[a] = list[a]
    BY <1>3, <1>4 DEF On
  <2>2. ASSUME list[a].successor # NoAddress
        PROVE  g[list[a].successor] = list[list[a].successor]
    <3>1. list[a].successor \in Addresses
      BY <2>1, <2>2, SuccessorIs DEF On
    <3> QED BY <1>3, <1>5, <2>1, <3>1
  <2> QED BY <2>1, <2>2
<1>7. \A a \in On(g) : OneOk(g, a, next, now)
  <2> SUFFICES ASSUME NEW a \in On(g) PROVE OneOk(g, a, next, now)
    OBVIOUS
  <2>1. OneOk(list, a, next, now)
    BY <1>6 DEF GroupsOk
  <2> QED BY <1>6, <2>1, OneKept
<1>8. \A a, b \in On(g) : a # b => TwoOk(g, a, b)
  <2> SUFFICES ASSUME NEW a \in On(g), NEW b \in On(g), a # b PROVE TwoOk(g, a, b)
    OBVIOUS
  <2>1. TwoOk(list, a, b)
    BY <1>6 DEF GroupsOk
  <2> QED BY <1>6, <2>1, TwoKept
<1>9. \A a \in Addresses \ On(g) : g[a] = NoDevice
  BY <1>3, <1>4 DEF GroupsOk
<1>10. next \in Nat /\ now \in Nat /\ 1 <= next
  BY DEF GroupsOk
<1>11. GroupsOk(g, next, now)
  BY ONLY <1>3, <1>7, <1>8, <1>9, <1>10 DEF GroupsOk
<1> QED BY <1>11 DEF g

\* A device is put on the list.
LEMMA PutIs ==
  ASSUME NEW list \in Lists, NEW x \in Addresses, NEW d \in SrDevice
  PROVE  /\ SrPut(list, x, d) \in Lists /\ SrPut(list, x, d)[x] = d
         /\ \A a \in Addresses : a # x => SrPut(list, x, d)[a] = list[a]
  BY DEF SrPut, Lists

\* A device that is heard for the first time has a group of its own.
LEMMA NewOk ==
  ASSUME NEW list, NEW next, NEW now, GroupsOk(list, next, now), NEW x \in Addresses,
         x \notin On(list), NEW g \in Lists,
         \A a \in Addresses : a # x => g[a] = list[a],
         g[x].order = next, g[x].group = next, g[x].successor = NoAddress,
         g[x].first = now, g[x].last = now, g[x].checked = FALSE
  PROVE  GroupsOk(g, next + 1, now)
<1>1. list \in Lists /\ next \in Nat /\ now \in Nat /\ 1 <= next
  BY DEF GroupsOk
<1>2. On(g) = On(list) \cup {x}
  BY <1>1 DEF On
<1>3. ASSUME NEW a \in On(list)
      PROVE  /\ a \in Addresses /\ a # x /\ g[a] = list[a]
             /\ list[a].order \in Nat /\ list[a].group \in Nat
             /\ 1 <= list[a].group /\ list[a].group <= list[a].order /\ list[a].order < next
             /\ list[a].successor # NoAddress => g[list[a].successor] = list[list[a].successor]
  <2>1. a \in Addresses /\ a # x /\ g[a] = list[a]
    BY DEF On
  <2>2. OneOk(list, a, next, now)
    BY DEF GroupsOk
  <2>3. list[a].successor # NoAddress => list[a].successor \in On(list)
    BY SuccessorIs
  <2>4. list[a].successor # NoAddress => g[list[a].successor] = list[list[a].successor]
    BY <2>3 DEF On
  <2>5. list[a].order \in Nat /\ list[a].group \in Nat
    BY <1>1, <2>1, DeviceIs
  <2> QED BY <2>1, <2>2, <2>4, <2>5 DEF OneOk
<1>4. \A a \in On(g) : OneOk(g, a, next + 1, now)
  <2>1. OneOk(g, x, next + 1, now)
    BY <1>1 DEF OneOk
  <2>2. ASSUME NEW a \in On(list) PROVE OneOk(g, a, next + 1, now)
    <3>1. OneOk(list, a, next, now)
      BY DEF GroupsOk
    <3>2. list[a].order < next + 1
      BY <1>1, <1>3
    <3>3. OneOk(list, a, next + 1, now)
      BY ONLY <3>1, <3>2 DEF OneOk
    <3> QED BY <1>3, <3>3, OneKept
  <2> QED BY <1>2, <2>1, <2>2
<1>5. \A a, b \in On(g) : a # b => TwoOk(g, a, b)
  <2>1. ASSUME NEW a \in On(list) PROVE TwoOk(g, a, x) /\ TwoOk(g, x, a)
    <3>1. /\ g[a].order \in Nat /\ g[a].group \in Nat /\ g[a].group <= g[a].order
          /\ g[a].order < next
      BY <1>3
    <3>2. g[a].order # next /\ g[a].group # next
      BY ONLY <1>1, <3>1
    <3> QED BY ONLY <3>2, g[x].order = next, g[x].group = next DEF TwoOk
  <2>2. ASSUME NEW a \in On(list), NEW b \in On(list), a # b PROVE TwoOk(g, a, b)
    <3>1. TwoOk(list, a, b)
      BY <2>2 DEF GroupsOk
    <3> QED BY <1>3, <3>1, TwoKept
  <2> QED BY <1>2, <2>1, <2>2
<1>6. \A a \in Addresses \ On(g) : g[a] = NoDevice
  BY <1>2 DEF GroupsOk
<1>7. next + 1 \in Nat /\ 1 <= next + 1
  BY <1>1
<1> QED BY ONLY <1>1, <1>4, <1>5, <1>6, <1>7, g \in Lists DEF GroupsOk

\* The chain that follows a listed device: the later members of its group.
LEMMA ChainIs ==
  ASSUME NEW list, NEW next, NEW now, GroupsOk(list, next, now), NEW a \in On(list),
         list[a].successor # NoAddress
  PROVE  LET s == list[a].successor
             C == Chain(list, s)
         IN /\ s \in C /\ a \notin C
            /\ \A b \in C : /\ b \in On(list) /\ list[b].group = list[a].group
                            /\ list[a].last < list[b].first /\ list[s].order <= list[b].order
                            /\ list[b].successor # NoAddress => list[b].successor \in C
            /\ \A b \in On(list) : b # a /\ list[b].group = list[a].group /\ b \notin C =>
                 GaveWay(list, b, a)
<1> DEFINE s == list[a].successor
           C == Chain(list, s)
           N == {b \in On(list) : /\ list[b].group = list[a].group
                                  /\ list[a].last < list[b].first
                                  /\ list[s].order <= list[b].order}
<1>1. list \in Lists /\ a \in Addresses
  BY DEF GroupsOk, On
<1>2. \A b \in Addresses : /\ list[b].order \in Nat /\ list[b].first \in Nat
                           /\ list[b].last \in Nat
  BY <1>1, DeviceIs
<1>3. /\ s \in On(list) /\ s \in Addresses /\ list[s].group = list[a].group
      /\ list[a].last < list[s].first
  BY SuccessorIs DEF On
<1>4. \A b \in On(list) : b \in Addresses /\ list[b].first <= list[b].last
  BY DEF GroupsOk, OneOk, On
<1>5. \A b \in On(list) : list[b].successor # NoAddress =>
        /\ list[b].successor \in On(list) /\ list[list[b].successor].group = list[b].group
        /\ list[b].last < list[list[b].successor].first
        /\ list[b].order < list[list[b].successor].order
  BY SuccessorIs
<1>6. \A b \in Addresses : b # NoAddress
  BY ShortRangeAssumption
<1>7. \A b \in Addresses : b \in C <=> \A S \in SUBSET Addresses : IsChain(list, s, S) => b \in S
  BY DEF Chain
<1>8. C \subseteq Addresses
  BY DEF Chain
<1> HIDE DEF s, C
<1>9. IsChain(list, s, N)
  <2>1. s \in N
    BY <1>2, <1>3
  <2>2. ASSUME NEW b \in N, NEW d \in Addresses, list[b].successor = d PROVE d \in N
    <3>1. /\ b \in On(list) /\ b \in Addresses /\ list[b].group = list[a].group
          /\ list[a].last < list[b].first /\ list[s].order <= list[b].order
      BY <1>4
    <3>2. /\ d \in On(list) /\ list[d].group = list[b].group
          /\ list[b].last < list[d].first /\ list[b].order < list[d].order
      BY <1>5, <1>6, <2>2, <3>1
    <3>3. list[b].first <= list[b].last
      BY <1>4, <3>1
    <3>4. list[a].last < list[d].first /\ list[s].order <= list[d].order
      BY ONLY <1>1, <1>2, <1>3, <3>1, <3>2, <3>3, d \in Addresses
    <3> QED BY <3>1, <3>2, <3>4
  <2> QED BY <2>1, <2>2 DEF IsChain
<1>10. C \subseteq N
  <2>1. N \subseteq Addresses
    BY <1>4
  <2> HIDE DEF N
  <2> QED BY <1>7, <1>8, <1>9, <2>1
<1>11. s \in C
  BY <1>3, <1>7 DEF IsChain
<1>12. a \notin C
  BY <1>1, <1>2, <1>4, <1>10
<1>13. \A b \in C : list[b].successor # NoAddress => list[b].successor \in C
  <2> SUFFICES ASSUME NEW b \in C, list[b].successor # NoAddress PROVE list[b].successor \in C
    OBVIOUS
  <2> DEFINE d == list[b].successor
  <2>1. d \in On(list) /\ d \in Addresses /\ list[d].order > 0
    BY <1>4, <1>5, <1>10 DEF On
  <2>2. ASSUME NEW S \in SUBSET Addresses, IsChain(list, s, S) PROVE d \in S
    <3>1. b \in S
      BY <1>7, <1>8, <2>2
    <3> QED BY <2>1, <2>2, <3>1 DEF IsChain
  <2> HIDE DEF d
  <2>3. d \in C
    BY <1>7, <2>1, <2>2
  <2> QED BY <2>3 DEF d
<1>14. ASSUME NEW b \in On(list), b # a, list[b].group = list[a].group, b \notin C
       PROVE  GaveWay(list, b, a)
  <2> SUFFICES ASSUME ~GaveWay(list, b, a) PROVE FALSE
    OBVIOUS
  <2>1. GaveWay(list, a, b)
    <3>1. TwoOk(list, a, b)
      BY <1>14 DEF GroupsOk
    <3> QED BY <1>14, <3>1 DEF TwoOk
  <2>2. b \in Addresses
    BY <1>4
  <2>3. list[s].last < list[b].first
    BY <1>11, <1>14, <2>1 DEF GaveWay, s
  <2>4. PICK S \in SUBSET Addresses : IsChain(list, s, S) /\ b \notin S
    BY <1>7, <1>14, <2>2
  <2> DEFINE T == {c \in S : /\ c \in On(list) /\ list[c].group = list[a].group
                             /\ list[c].last < list[b].first}
             f == [c \in Addresses |-> list[c].order]
  <2>5. s \in T
    BY <1>3, <2>3, <2>4 DEF IsChain
  <2>6. f \in [Addresses -> Nat] /\ T \in SUBSET Addresses /\ T # {}
    BY <1>2, <2>5
  <2>7. PICK c \in T : \A d \in T : f[d] <= f[c]
    <3> HIDE DEF T, f
    <3> QED BY <2>6, Latest
  <2>8. /\ c \in S /\ c \in On(list) /\ c \in Addresses /\ list[c].group = list[a].group
        /\ list[c].last < list[b].first /\ c # b
    BY <1>2, <1>4, <2>2, <2>7
  <2>9. GaveWay(list, c, b)
    <3>1. TwoOk(list, c, b)
      BY <2>8 DEF GroupsOk
    <3>2. GaveWay(list, c, b) \/ GaveWay(list, b, c)
      BY <1>14, <2>8, <3>1 DEF TwoOk
    <3>3. ASSUME GaveWay(list, b, c) PROVE FALSE
      <4>1. list[b].last < list[c].first
        BY <3>3 DEF GaveWay
      <4>2. list[c].first <= list[c].last /\ list[b].first <= list[b].last
        BY <1>4, <2>8
      <4> QED BY ONLY <1>2, <2>2, <2>8, <4>1, <4>2
    <3> QED BY <3>2, <3>3
  <2> DEFINE d == list[c].successor
  <2>10. /\ d # NoAddress /\ (d = b \/ list[d].last < list[b].first)
    BY <2>9 DEF GaveWay
  <2>11. /\ d \in On(list) /\ d \in Addresses /\ list[d].group = list[c].group
         /\ list[c].order < list[d].order /\ list[d].order > 0
    BY <1>4, <1>5, <2>8, <2>10 DEF On
  <2>12. d \in S
    BY <2>4, <2>8, <2>11 DEF IsChain
  <2>13. d # b
    BY <2>4, <2>12
  <2>14. d \in T
    BY <2>8, <2>10, <2>11, <2>12, <2>13
  <2>15. f[d] <= f[c] /\ f[d] = list[d].order /\ f[c] = list[c].order
    BY <2>7, <2>8, <2>11, <2>14
  <2> HIDE DEF d, f
  <2> QED BY ONLY <1>2, <2>8, <2>11, <2>15
<1> QED BY <1>10, <1>11, <1>12, <1>13, <1>14 DEF s, C

\* The later members of a's group, before it is heard again.
Later(list, a) ==
  IF list[a].successor = NoAddress THEN {} ELSE Chain(list, list[a].successor)

\* What an address heard again does to the list.
LEMMA HeardIs ==
  ASSUME NEW list, NEW next, GroupsOk(list, next, captureIndex), NEW a \in On(list),
         LinkPackets \in Nat
  PROVE  LET g == Heard(UnlinkSuccessor(list, a), a)
             s == list[a].successor
         IN /\ g \in Lists
            /\ g[a].successor = NoAddress /\ g[a].last = captureIndex
            /\ g[a].order = list[a].order /\ g[a].group = list[a].group
            /\ g[a].first = list[a].first /\ g[a].checked = list[a].checked
            /\ \A b \in Addresses : b # a =>
                 /\ b \notin Later(list, a) => g[b] = list[b]
                 /\ b \in Later(list, a) => g[b] = [list[b] EXCEPT !.group = list[s].order]
<1> DEFINE s == list[a].successor
           e == [list[a] EXCEPT !.successor = NoAddress]
           cut == SrPut(list, a, e)
           u == UnlinkSuccessor(list, a)
           h == [u[a] EXCEPT !.last = captureIndex,
                             !.packets = IF @ < LinkPackets THEN @ + 1 ELSE @]
<1>1. list \in Lists /\ a \in Addresses /\ captureIndex \in Nat
  BY DEF GroupsOk, On
<1>2. list[a] \in SrDevice /\ s \in Addresses \cup {NoAddress}
  BY <1>1, DeviceIs
<1>3. /\ e \in SrDevice /\ e.successor = NoAddress /\ e.order = list[a].order
      /\ e.group = list[a].group /\ e.first = list[a].first /\ e.checked = list[a].checked
  BY <1>2 DEF SrDevice
<1> HIDE DEF e
<1>4. cut \in Lists /\ cut[a] = e /\ \A b \in Addresses : b # a => cut[b] = list[b]
  BY <1>1, <1>3, PutIs
<1> HIDE DEF cut
<1>5. /\ u \in Lists /\ u[a] = e
      /\ \A b \in Addresses : b # a =>
           /\ b \notin Later(list, a) => u[b] = list[b]
           /\ b \in Later(list, a) => u[b] = [list[b] EXCEPT !.group = list[s].order]
  <2>1. CASE s = NoAddress
    <3>1. u = cut
      BY <2>1 DEF UnlinkSuccessor, cut, e
    <3> QED BY <1>4, <2>1, <3>1 DEF Later
  <2>2. CASE s # NoAddress
    <3> DEFINE C == Chain(list, s)
    <3>1. s \in On(list) /\ s \in Addresses /\ a \notin C
      BY <2>2, SuccessorIs, ChainIs DEF On
    <3>2. list[s].order # 0 /\ list[s].order \in Nat
      BY <1>1, <3>1, DeviceIs DEF On
    <3>3. u = [b \in Addresses |-> IF b \in C THEN [cut[b] EXCEPT !.group = list[s].order]
                                             ELSE cut[b]]
      BY <2>2, <3>2 DEF UnlinkSuccessor, cut, e
    <3>4. Later(list, a) = C
      BY <2>2 DEF Later
    <3> HIDE DEF u, C, s
    <3>5. \A b \in Addresses : [cut[b] EXCEPT !.group = list[s].order] \in SrDevice
      BY <1>4, <3>2, DeviceIs DEF SrDevice
    <3>6. \A b \in Addresses : cut[b] \in SrDevice
      BY <1>4 DEF Lists
    <3>7. u \in Lists
      BY ONLY <3>3, <3>5, <3>6 DEF Lists
    <3> QED BY <1>1, <1>4, <3>1, <3>3, <3>4, <3>7
  <2> QED BY <2>1, <2>2
<1> HIDE DEF u
<1>6. u[a] \in SrDevice
  BY <1>3, <1>5
<1>7. /\ h \in SrDevice /\ h.last = captureIndex
      /\ h.successor = u[a].successor /\ h.order = u[a].order /\ h.group = u[a].group
      /\ h.first = u[a].first /\ h.checked = u[a].checked
  <2> DEFINE d == u[a]
             p == IF d.packets < LinkPackets THEN d.packets + 1 ELSE d.packets
  <2>1. h = [d EXCEPT !.last = captureIndex, !.packets = p]
    BY <1>6 DEF SrDevice
  <2>2. p \in Nat
    BY <1>6 DEF SrDevice
  <2>3. d \in SrDevice
    BY <1>6
  <2> HIDE DEF d, p, h
  <2>4. /\ h \in SrDevice /\ h.last = captureIndex
        /\ h.successor = d.successor /\ h.order = d.order /\ h.group = d.group
        /\ h.first = d.first /\ h.checked = d.checked
    BY <1>1, <2>1, <2>2, <2>3 DEF SrDevice
  <2> QED BY <2>4 DEF d
<1> HIDE DEF h
<1>8. /\ SrPut(u, a, h) \in Lists /\ SrPut(u, a, h)[a] = h
      /\ \A b \in Addresses : b # a => SrPut(u, a, h)[b] = u[b]
  BY <1>1, <1>5, <1>7, PutIs
<1>9. Heard(u, a) = SrPut(u, a, h)
  BY DEF Heard, h
<1> DEFINE g == SrPut(u, a, h)
<1> HIDE DEF g
<1>10. /\ g \in Lists /\ g[a].successor = NoAddress /\ g[a].last = captureIndex
       /\ g[a].order = list[a].order /\ g[a].group = list[a].group
       /\ g[a].first = list[a].first /\ g[a].checked = list[a].checked
       /\ \A b \in Addresses : b # a =>
            /\ b \notin Later(list, a) => g[b] = list[b]
            /\ b \in Later(list, a) => g[b] = [list[b] EXCEPT !.group = list[s].order]
  BY <1>3, <1>5, <1>7, <1>8 DEF g
<1> QED BY <1>9, <1>10 DEF g, u, s

\* One address still gives way to another when nothing of it, of the other's entry
\* and of its successor's last capture has changed.
LEMMA WayKept ==
  ASSUME NEW f, NEW g, NEW b, NEW c, GaveWay(f, b, c),
         g[b].last = f[b].last, g[b].order = f[b].order, g[b].successor = f[b].successor,
         g[c].first = f[c].first, g[c].order = f[c].order,
         f[b].successor # c => g[f[b].successor].last = f[f[b].successor].last
  PROVE  GaveWay(g, b, c)
  BY DEF GaveWay

\* What the later members of a's group are.
LEMMA LaterIs ==
  ASSUME NEW list, NEW next, NEW now, GroupsOk(list, next, now), NEW a \in On(list)
  PROVE  LET L == Later(list, a)
             s == list[a].successor
         IN /\ a \notin L /\ (s # NoAddress => s \in L)
            /\ \A b \in L : /\ s # NoAddress /\ s \in On(list) /\ list[a].order < list[s].order
                            /\ b \in On(list) /\ list[b].group = list[a].group
                            /\ list[a].last < list[b].first /\ list[s].order <= list[b].order
                            /\ list[b].successor # NoAddress => list[b].successor \in L
            /\ \A b \in On(list) : b # a /\ list[b].group = list[a].group /\ b \notin L =>
                 GaveWay(list, b, a)
<1> DEFINE s == list[a].successor
<1>1. CASE s # NoAddress
  <2>1. Later(list, a) = Chain(list, s)
    BY <1>1 DEF Later
  <2>2. s \in On(list) /\ list[a].order < list[s].order
    BY <1>1, SuccessorIs
  <2> QED BY <1>1, <2>1, <2>2, ChainIs
<1>2. CASE s = NoAddress
  <2>1. Later(list, a) = {}
    BY <1>2 DEF Later
  <2>2. ASSUME NEW b \in On(list), b # a, list[b].group = list[a].group
        PROVE  GaveWay(list, b, a)
    <3>1. TwoOk(list, b, a)
      BY <2>2 DEF GroupsOk
    <3>2. ~GaveWay(list, a, b)
      BY <1>2 DEF GaveWay
    <3> QED BY <2>2, <3>1, <3>2 DEF TwoOk
  <2> QED BY <1>2, <2>1, <2>2
<1> QED BY <1>1, <1>2

\* The list once a is heard again: what followed it is a group of its own, numbered n.
HeardAgain(list, g, a, n, now) ==
  /\ Later(list, a) # {} => n = list[list[a].successor].order
  /\ g[a].successor = NoAddress /\ g[a].last = now
  /\ \A b \in Addresses :
       /\ g[b].order = list[b].order /\ g[b].first = list[b].first
       /\ g[b].checked = list[b].checked
       /\ b # a => g[b].last = list[b].last /\ g[b].successor = list[b].successor
       /\ b \notin Later(list, a) => g[b].group = list[b].group
       /\ b \in Later(list, a) => g[b].group = n
  /\ \A b \in Addresses \ On(list) : g[b] = NoDevice

\* A listed address is heard: what followed it is another device.
LEMMA KnownOk ==
  ASSUME NEW list, NEW next, NEW now, GroupsOk(list, next, now), NEW a \in On(list),
         NEW g \in Lists, NEW n, HeardAgain(list, g, a, n, now)
  PROVE  GroupsOk(g, next, now)
<1> /\ Later(list, a) # {} => n = list[list[a].successor].order
    /\ g[a].successor = NoAddress /\ g[a].last = now
    /\ \A b \in Addresses :
         /\ g[b].order = list[b].order /\ g[b].first = list[b].first
         /\ g[b].checked = list[b].checked
         /\ b # a => g[b].last = list[b].last /\ g[b].successor = list[b].successor
         /\ b \notin Later(list, a) => g[b].group = list[b].group
         /\ b \in Later(list, a) => g[b].group = n
    /\ \A b \in Addresses \ On(list) : g[b] = NoDevice
  BY DEF HeardAgain
<1> DEFINE L == Later(list, a)
           s == list[a].successor
<1>1. list \in Lists /\ a \in Addresses /\ next \in Nat /\ now \in Nat /\ 1 <= next
  BY DEF GroupsOk, On
<1>2. \A b \in Addresses : /\ list[b].order \in Nat /\ list[b].first \in Nat
                           /\ list[b].last \in Nat /\ list[b].group \in Nat
  BY <1>1, DeviceIs
<1>3. /\ a \notin L
      /\ \A b \in L : /\ s # NoAddress /\ s \in On(list) /\ s \in L
                      /\ list[a].order < list[s].order
                      /\ b \in On(list) /\ list[b].group = list[a].group
                      /\ list[a].last < list[b].first /\ list[s].order <= list[b].order
                      /\ list[b].successor # NoAddress => list[b].successor \in L
      /\ \A b \in On(list) : b # a /\ list[b].group = list[a].group /\ b \notin L =>
           GaveWay(list, b, a)
  BY LaterIs
<1>4. \A b \in On(list) : b \in Addresses /\ OneOk(list, b, next, now)
  BY DEF GroupsOk, On
<1>5. \A b \in On(list) : list[b].successor # NoAddress =>
        /\ list[b].successor \in On(list) /\ list[b].successor \in Addresses
        /\ list[list[b].successor].group = list[b].group
        /\ list[b].last < list[list[b].successor].first
        /\ list[b].order < list[list[b].successor].order
  BY SuccessorIs DEF On
<1>6. \A b, c \in On(list) : b # c => TwoOk(list, b, c)
  BY DEF GroupsOk
<1>7. On(g) = On(list)
  BY DEF On
<1>8. \A b \in L : n = list[s].order
  OBVIOUS
<1> HIDE DEF L, s
<1>9. \A b \in Addresses :
        /\ g[b].order = list[b].order /\ g[b].first = list[b].first
        /\ g[b].checked = list[b].checked
        /\ b # a => g[b].last = list[b].last /\ g[b].successor = list[b].successor
        /\ b \notin L => g[b].group = list[b].group
        /\ b \in L => g[b].group = n
  BY DEF L
<1>10. \A b \in On(list) : /\ list[b].first <= list[b].last /\ list[b].last <= now
                           /\ 1 <= list[b].group /\ list[b].group <= list[b].order
                           /\ list[b].order < next
                           /\ list[b].checked # TRUE => list[b].group = list[b].order
  BY <1>4 DEF OneOk
<1>11. ASSUME NEW b \in L
       PROVE  /\ n = list[s].order /\ n \in Nat /\ n <= list[b].order
              /\ list[a].group < n /\ list[b].group < n
  <2>1. /\ s \in On(list) /\ s \in Addresses /\ list[a].order < list[s].order
        /\ list[b].group = list[a].group /\ list[s].order <= list[b].order /\ n = list[s].order
    BY <1>3, <1>4, <1>8
  <2>2. list[a].group <= list[a].order /\ list[a].order \in Nat /\ list[a].group \in Nat
        /\ list[s].order \in Nat
    BY <1>1, <1>2, <1>10, <2>1
  <2> QED BY ONLY <2>1, <2>2
<1>12. ASSUME NEW b \in L, NEW c \in On(list) PROVE list[c].group # n
  <2>1. n = list[s].order /\ s \in On(list) /\ s \in L
    BY <1>3, <1>11
  <2>2. CASE c = s
    <3>1. list[s].group < n /\ n \in Nat
      BY ONLY <1>11, <2>1
    <3>2. list[s].group \in Nat
      BY <1>2, <1>4, <2>1
    <3> QED BY ONLY <2>2, <3>1, <3>2
  <2>3. CASE c # s
    <3>1. list[c].group = list[s].order => list[s].group = list[s].order
      BY <1>6, <2>1, <2>3 DEF TwoOk
    <3>2. list[s].group < list[s].order /\ list[s].order \in Nat /\ list[s].group \in Nat
      BY <1>2, <1>4, <1>11, <2>1
    <3>3. list[s].group # list[s].order
      BY ONLY <3>2
    <3> QED BY ONLY <2>1, <3>1, <3>3
  <2> QED BY <2>2, <2>3
<1>13. ASSUME NEW b \in On(list), b # a, b \notin L, list[b].successor # NoAddress
       PROVE  list[b].successor \notin L
  <2> DEFINE d == list[b].successor
  <2> SUFFICES ASSUME d \in L PROVE FALSE
    OBVIOUS
  <2>1. /\ d \in On(list) /\ d \in Addresses /\ list[d].group = list[b].group
        /\ list[d].group = list[a].group /\ list[a].last < list[d].first
    BY <1>3, <1>5, <1>13
  <2>2. GaveWay(list, b, a)
    BY <1>3, <1>13, <2>1
  <2>3. d = a \/ list[d].last < list[a].first
    BY <2>2 DEF GaveWay
  <2>4. list[a].first <= list[a].last /\ list[d].first <= list[d].last
    BY <1>10, <2>1
  <2>5. d # a
    BY <1>3
  <2> HIDE DEF d
  <2> QED BY ONLY <1>1, <1>2, <2>1, <2>3, <2>4, <2>5
<1>14. ASSUME NEW b \in On(list) PROVE OneOk(g, b, next, now)
  <2>0. b \in Addresses
    BY <1>4
  <2>1. CASE b = a
    <3>1. /\ 1 <= g[a].group /\ g[a].group <= g[a].order /\ g[a].order < next
          /\ g[a].checked # TRUE => g[a].group = g[a].order
      BY ONLY <1>1, <1>3, <1>9, <1>10, <2>1, b \in On(list)
    <3>2. g[a].first <= now
      <4>1. list[a].first <= list[a].last /\ list[a].last <= now
        BY <1>10
      <4>2. g[a].first = list[a].first /\ list[a].first \in Nat /\ list[a].last \in Nat
        BY <1>1, <1>2, <1>9
      <4> QED BY ONLY <1>1, <4>1, <4>2
    <3>3. now <= now
      BY <1>1
    <3>4. g[a].first <= g[a].last /\ g[a].last <= now /\ g[a].successor = NoAddress
      BY ONLY <3>2, <3>3, g[a].successor = NoAddress, g[a].last = now, Zenon
    <3>5. OneOk(g, a, next, now)
      BY ONLY <3>1, <3>4, Zenon DEF OneOk
    <3> QED BY ONLY <2>1, <3>5
  <2>2. CASE b # a
    <3>1. /\ g[b].order = list[b].order /\ g[b].first = list[b].first
          /\ g[b].checked = list[b].checked
          /\ g[b].last = list[b].last /\ g[b].successor = list[b].successor
      BY ONLY <1>9, <2>0, <2>2
    <3>2. /\ list[b].first <= list[b].last /\ list[b].last <= now /\ list[b].order < next
      BY <1>10
    <3>3. /\ 1 <= g[b].group /\ g[b].group <= list[b].order
          /\ list[b].checked # TRUE => g[b].group = list[b].order
      <4>1. CASE b \in L
        <5>1. g[b].group = n /\ n \in Nat /\ n <= list[b].order /\ list[b].group < n
          BY <1>9, <1>11, <2>0, <4>1
        <5>2. 1 <= list[b].group /\ list[b].group \in Nat /\ list[b].order \in Nat
          BY <1>2, <1>10, <2>0
        <5>3. list[b].group # list[b].order /\ 1 <= n
          BY ONLY <5>1, <5>2
        <5> QED BY ONLY <1>10, <5>1, <5>3, b \in On(list)
      <4>2. CASE b \notin L
        BY ONLY <1>9, <1>10, <2>0, <4>2, b \in On(list)
      <4> QED BY <4>1, <4>2
    <3>4. ASSUME list[b].successor # NoAddress
          PROVE  /\ g[list[b].successor].order > 0
                 /\ g[list[b].successor].group = g[b].group
                 /\ list[b].last < g[list[b].successor].first
                 /\ list[b].order < g[list[b].successor].order
      <4> DEFINE d == list[b].successor
      <4>1. /\ d \in On(list) /\ d \in Addresses /\ list[d].group = list[b].group
            /\ list[b].last < list[d].first /\ list[b].order < list[d].order
        BY <1>5, <3>4
      <4>2. d \in L <=> b \in L
        BY <1>3, <1>13, <2>2, <3>4
      <4> HIDE DEF d
      <4>3. g[d].order = list[d].order /\ g[d].first = list[d].first /\ list[d].order > 0
        BY <1>9, <4>1 DEF On
      <4>4. g[d].group = g[b].group
        BY ONLY <1>9, <2>0, <4>1, <4>2
      <4>5. /\ g[d].order > 0 /\ g[d].group = g[b].group
            /\ list[b].last < g[d].first /\ list[b].order < g[d].order
        BY ONLY <4>1, <4>3, <4>4
      <4> QED BY <4>5 DEF d
    <3> QED BY ONLY <3>1, <3>2, <3>3, <3>4 DEF OneOk
  <2> QED BY <2>1, <2>2
<1>15. ASSUME NEW b \in On(list), NEW c \in On(list), b # c, GaveWay(list, b, c),
              g[b].group = g[c].group
       PROVE  GaveWay(g, b, c)
  <2>1. b \in Addresses /\ c \in Addresses
    BY <1>4
  <2>2. list[b].group = list[c].group /\ (b \in L <=> c \in L)
    BY ONLY <1>9, <1>12, <1>15, <2>1, b \in On(list), c \in On(list),
            <1>3
  <2>3. b # a
    <3> SUFFICES ASSUME b = a PROVE FALSE
      OBVIOUS
    <3>1. GaveWay(list, c, a)
      BY <1>3, <1>15, <2>2
    <3>2. list[a].last < list[c].first /\ list[c].last < list[a].first
      BY <1>15, <3>1 DEF GaveWay
    <3>3. list[a].first <= list[a].last /\ list[c].first <= list[c].last
      BY <1>10
    <3> QED BY ONLY <1>1, <1>2, <2>1, <3>2, <3>3
  <2>4. ASSUME list[b].successor = a, c # a PROVE FALSE
    <3>1. /\ list[b].successor # NoAddress /\ list[a].group = list[b].group
          /\ list[a].last < list[c].first
      BY <1>1, <1>5, <1>15, <2>4, ShortRangeAssumption DEF GaveWay
    <3>2. b \notin L
      BY <1>3, <2>4, <3>1
    <3>3. GaveWay(list, c, a)
      BY <1>3, <2>2, <2>4, <3>1, <3>2
    <3>4. list[c].last < list[a].first
      BY <3>3 DEF GaveWay
    <3>5. list[a].first <= list[a].last /\ list[c].first <= list[c].last
      BY <1>10
    <3> QED BY ONLY <1>1, <1>2, <2>1, <3>1, <3>4, <3>5
  <2>5. list[b].successor # c => g[list[b].successor].last = list[list[b].successor].last
    <3>1. list[b].successor # NoAddress
      BY <1>15 DEF GaveWay
    <3>2. list[b].successor \in Addresses
      BY <1>5, <3>1
    <3> QED BY <1>9, <2>4, <3>2
  <2> QED BY <1>9, <1>15, <2>1, <2>3, <2>5, WayKept
<1>16. ASSUME NEW b \in On(list), NEW c \in On(list), b # c PROVE TwoOk(g, b, c)
  <2>1. TwoOk(list, b, c) /\ b \in Addresses /\ c \in Addresses
    BY <1>4, <1>6, <1>16
  <2>2. g[b].order # g[c].order
    BY <1>9, <2>1 DEF TwoOk
  <2>3. ASSUME g[b].group = g[c].order PROVE g[c].group = g[c].order
    <3>1. CASE b \in L
      <4>1. n = list[s].order /\ s \in On(list) /\ s \in L /\ g[b].group = n
            /\ g[c].order = list[c].order
        BY <1>3, <1>9, <1>11, <2>1, <3>1
      <4>2. c = s
        <5>1. c # s => list[c].order # list[s].order
          BY <1>6, <4>1 DEF TwoOk
        <5> QED BY ONLY <2>3, <4>1, <5>1
      <4>3. g[c].group = n
        BY <1>9, <2>1, <4>1, <4>2
      <4> QED BY ONLY <2>3, <4>1, <4>3
    <3>2. CASE b \notin L
      <4>1. list[b].group = list[c].order
        BY ONLY <1>9, <2>1, <2>3, <3>2
      <4>2. list[c].group = list[c].order
        BY ONLY <2>1, <4>1 DEF TwoOk
      <4>3. c \notin L
        <5> SUFFICES ASSUME c \in L PROVE FALSE
          OBVIOUS
        <5>1. n \in Nat /\ n <= list[c].order /\ list[c].group < n
          BY <1>11
        <5>2. list[c].group \in Nat /\ list[c].order \in Nat
          BY <1>2, <2>1
        <5> QED BY ONLY <4>2, <5>1, <5>2
      <4> QED BY ONLY <1>9, <2>1, <4>2, <4>3
    <3> QED BY <3>1, <3>2
  <2>4. ASSUME g[b].group = g[c].group PROVE GaveWay(g, b, c) \/ GaveWay(g, c, b)
    <3>1. list[b].group = list[c].group
      BY ONLY <1>3, <1>9, <1>12, <2>1, <2>4, b \in On(list), c \in On(list)
    <3>2. GaveWay(list, b, c) \/ GaveWay(list, c, b)
      BY ONLY <2>1, <3>1 DEF TwoOk
    <3> QED BY ONLY <1>15, <1>16, <2>4, <3>2, b \in On(list), c \in On(list)
  <2> QED BY ONLY <2>2, <2>3, <2>4 DEF TwoOk
<1> QED BY <1>1, <1>7, <1>14, <1>16 DEF GroupsOk

\* Nothing an address could follow was found: this is noted.
LEMMA TriedOk ==
  ASSUME NEW list, NEW next, NEW now, GroupsOk(list, next, now), NEW a \in On(list),
         NEW g \in Lists, \A b \in Addresses : b # a => g[b] = list[b],
         g[a] = [list[a] EXCEPT !.checked = TRUE]
  PROVE  GroupsOk(g, next, now)
<1>1. list \in Lists /\ next \in Nat /\ now \in Nat /\ 1 <= next
  BY DEF GroupsOk
<1>2. list[a] \in SrDevice
  BY <1>1 DEF Lists, On
<1>3. \A b \in Addresses :
        /\ g[b].order = list[b].order /\ g[b].group = list[b].group
        /\ g[b].first = list[b].first /\ g[b].last = list[b].last
        /\ g[b].successor = list[b].successor
  BY <1>2 DEF SrDevice
<1>4. g[a].checked = TRUE
  BY <1>2 DEF SrDevice
<1>5. On(g) = On(list) /\ \A b \in On(list) : b \in Addresses
  BY <1>3 DEF On
<1>6. \A b \in On(list) : list[b].successor # NoAddress => list[b].successor \in Addresses
  BY SuccessorIs DEF On
<1>7. \A b \in On(list) : g[b].checked # TRUE => list[b].checked # TRUE
  BY <1>4, <1>5
<1>8. ASSUME NEW b \in On(list) PROVE OneOk(g, b, next, now)
  <2>1. OneOk(list, b, next, now)
    BY DEF GroupsOk
  <2> QED BY ONLY ZenonT(40), <1>3, <1>5, <1>6, <1>7, <2>1, b \in On(list) DEF OneOk
<1>9. ASSUME NEW b \in On(list), NEW c \in On(list), b # c PROVE TwoOk(g, b, c)
  <2>1. TwoOk(list, b, c)
    BY <1>9 DEF GroupsOk
  <2>2. GaveWay(list, b, c) => GaveWay(g, b, c)
    BY ONLY <1>3, <1>5, <1>6, b \in On(list), c \in On(list) DEF GaveWay
  <2>3. GaveWay(list, c, b) => GaveWay(g, c, b)
    BY ONLY <1>3, <1>5, <1>6, b \in On(list), c \in On(list) DEF GaveWay
  <2> QED BY ONLY <1>3, <1>5, <2>1, <2>2, <2>3, b \in On(list), c \in On(list) DEF TwoOk
<1>10. \A b \in Addresses \ On(g) : g[b] = NoDevice
  BY <1>5 DEF GroupsOk
<1> QED BY <1>1, <1>5, <1>8, <1>9, <1>10 DEF GroupsOk

\* The list once a is linked to c: it is in c's group and follows it.
FollowsNow(list, g, a, c) ==
  /\ \A b \in Addresses :
       /\ g[b].order = list[b].order /\ g[b].first = list[b].first
       /\ g[b].last = list[b].last
       /\ b # a => g[b].group = list[b].group /\ g[b].checked = list[b].checked
       /\ b # c => g[b].successor = list[b].successor
  /\ g[a].group = list[c].group /\ g[a].checked = TRUE /\ g[c].successor = a
  /\ \A b \in Addresses \ On(list) : g[b] = NoDevice

\* An address just heard is linked to one that was last heard before it came: that one's
\* group is its own.
LEMMA LinkOk ==
  ASSUME NEW list, NEW next, NEW now, GroupsOk(list, next, now), NEW a \in On(list),
         list[a].successor = NoAddress, list[a].checked # TRUE,
         NEW c \in On(list), c # a, list[c].order <= list[a].order,
         list[c].successor = NoAddress, list[c].last < list[a].first,
         NEW g \in Lists, FollowsNow(list, g, a, c)
  PROVE  GroupsOk(g, next, now)
<1> /\ \A b \in Addresses :
         /\ g[b].order = list[b].order /\ g[b].first = list[b].first
         /\ g[b].last = list[b].last
         /\ b # a => g[b].group = list[b].group /\ g[b].checked = list[b].checked
         /\ b # c => g[b].successor = list[b].successor
    /\ g[a].group = list[c].group /\ g[a].checked = TRUE /\ g[c].successor = a
    /\ \A b \in Addresses \ On(list) : g[b] = NoDevice
  BY DEF FollowsNow
<1>1. /\ list \in Lists /\ next \in Nat /\ now \in Nat /\ 1 <= next
      /\ \A b \in On(list) : b \in Addresses
  BY DEF GroupsOk, On
<1>2. \A b \in Addresses : /\ list[b].order \in Nat /\ list[b].first \in Nat
                           /\ list[b].last \in Nat /\ list[b].group \in Nat
  BY <1>1, DeviceIs
<1>3. \A b \in On(list) : OneOk(list, b, next, now)
  BY DEF GroupsOk
<1>4. \A b, d \in On(list) : b # d => TwoOk(list, b, d)
  BY DEF GroupsOk
<1>5. \A b \in On(list) : list[b].successor # NoAddress =>
        /\ list[b].successor \in On(list) /\ list[b].successor \in Addresses
        /\ list[list[b].successor].group = list[b].group
        /\ list[b].last < list[list[b].successor].first
        /\ list[b].order < list[list[b].successor].order
  BY SuccessorIs DEF On
<1>6. \A b \in On(list) : /\ list[b].first <= list[b].last /\ list[b].last <= now
                          /\ 1 <= list[b].group /\ list[b].group <= list[b].order
                          /\ list[b].order < next
                          /\ list[b].checked # TRUE => list[b].group = list[b].order
  BY <1>3 DEF OneOk
<1>7. On(g) = On(list)
  BY DEF On
<1>8. list[c].order < list[a].order /\ list[c].group < list[a].order
  <2>1. list[c].order # list[a].order
    BY <1>4 DEF TwoOk
  <2>2. list[c].group <= list[c].order /\ a \in Addresses /\ c \in Addresses
    BY <1>1, <1>6
  <2> QED BY ONLY <1>2, <2>1, <2>2, list[c].order <= list[a].order
<1>9. ASSUME NEW b \in On(list), b # a PROVE list[b].group # list[a].order
  <2> SUFFICES ASSUME list[b].group = list[a].order PROVE FALSE
    OBVIOUS
  <2>1. TwoOk(list, b, a) /\ list[b].group = list[a].group
    BY <1>4, <1>6, <1>9
  <2>2. GaveWay(list, b, a) \/ GaveWay(list, a, b)
    BY ONLY <2>1 DEF TwoOk
  <2>3. GaveWay(list, b, a)
    BY <2>2 DEF GaveWay
  <2>4. list[b].order < list[a].order /\ list[b].group <= list[b].order /\ b \in Addresses
        /\ a \in Addresses
    BY <1>1, <1>6, <2>3 DEF GaveWay
  <2> QED BY ONLY <1>2, <2>4, list[b].group = list[a].order
<1>10. ASSUME NEW b \in On(list), list[b].successor # NoAddress PROVE list[b].successor # a
  <2> SUFFICES ASSUME list[b].successor = a PROVE FALSE
    OBVIOUS
  <2>1. list[a].group = list[b].group /\ list[b].order < list[a].order /\ b # a
    BY <1>5, <1>10
  <2>2. list[a].group = list[a].order
    BY <1>6
  <2> QED BY <1>9, <2>1, <2>2
<1>11. \A b \in Addresses :
         /\ g[b].order = list[b].order /\ g[b].first = list[b].first
         /\ g[b].last = list[b].last
         /\ b # a => g[b].group = list[b].group /\ g[b].checked = list[b].checked
         /\ b # c => g[b].successor = list[b].successor
  OBVIOUS
<1>12. /\ g[a].group = list[c].group /\ g[a].checked = TRUE /\ g[c].successor = a
       /\ list[c].last < list[a].first /\ a # c /\ list[c].successor = NoAddress
       /\ a \in On(list) /\ c \in On(list) /\ a \in Addresses /\ c \in Addresses
       /\ list[a].successor = NoAddress /\ a # NoAddress
  BY <1>1, ShortRangeAssumption
<1>13. ASSUME NEW b \in On(list) PROVE OneOk(g, b, next, now)
  <2>0. b \in Addresses /\ OneOk(list, b, next, now)
    BY <1>1, <1>3
  <2>1. /\ g[b].first <= g[b].last /\ g[b].last <= now /\ g[b].order < next
    BY ONLY <1>6, <1>11, <2>0, b \in On(list)
  <2>2. /\ 1 <= g[b].group /\ g[b].group <= g[b].order
        /\ g[b].checked # TRUE => g[b].group = g[b].order
    <3>1. CASE b = a
      <4>1. list[c].group <= list[a].order /\ 1 <= list[c].group
        <5>1. /\ list[c].group < list[a].order /\ 1 <= list[c].group
              /\ list[c].group \in Nat /\ list[a].order \in Nat
          BY <1>2, <1>6, <1>8, <1>12
        <5> QED BY ONLY <5>1
      <4>2. g[b].group = list[c].group /\ g[b].order = list[a].order /\ g[b].checked = TRUE
        BY ONLY <1>11, <1>12, <3>1, Zenon
      <4> QED BY ONLY <4>1, <4>2
    <3>2. CASE b # a
      BY ONLY <1>6, <1>11, <2>0, <3>2, b \in On(list)
    <3> QED BY <3>1, <3>2
  <2>3. ASSUME g[b].successor # NoAddress
        PROVE  /\ g[g[b].successor].order > 0
               /\ g[g[b].successor].group = g[b].group
               /\ g[b].last < g[g[b].successor].first
               /\ g[b].order < g[g[b].successor].order
    <3>1. CASE b = c
      <4>1. g[b].successor = a /\ g[b].last = list[c].last /\ g[b].order = list[c].order
            /\ g[b].group = list[c].group
        BY ONLY <1>11, <1>12, <3>1
      <4>2. list[a].order > 0
        BY DEF On
      <4> QED BY ONLY <1>8, <1>11, <1>12, <4>1, <4>2
    <3>2. CASE b # c
      <4> DEFINE d == list[b].successor
      <4>1. g[b].successor = d /\ d # NoAddress
        BY ONLY <1>11, <2>0, <2>3, <3>2
      <4>2. /\ d \in On(list) /\ d \in Addresses /\ list[d].group = list[b].group
            /\ list[b].last < list[d].first /\ list[b].order < list[d].order /\ d # a
        BY <1>5, <1>10, <4>1
      <4>3. list[d].order > 0
        BY <4>2 DEF On
      <4>4. b # a
        BY ONLY <1>12, <4>1
      <4> HIDE DEF d
      <4> QED BY ONLY <1>11, <2>0, <4>1, <4>2, <4>3, <4>4
    <3> QED BY <3>1, <3>2
  <2> QED BY ONLY <2>1, <2>2, <2>3 DEF OneOk
<1>14. ASSUME NEW b \in On(list), NEW d \in On(list), GaveWay(list, b, d) PROVE GaveWay(g, b, d)
  <2>1. b # c
    BY <1>14 DEF GaveWay
  <2>2. list[b].successor \in Addresses
    BY <1>5, <1>14 DEF GaveWay
  <2> QED BY <1>1, <1>11, <1>14, <2>1, <2>2, WayKept
<1>15. ASSUME NEW b \in On(list), b # a, list[b].group = list[c].group PROVE GaveWay(g, b, a)
  <2>0. b \in Addresses
    BY <1>1
  <2>1. CASE b = c
    BY ONLY <1>8, <1>11, <1>12, <2>1 DEF GaveWay
  <2>2. CASE b # c
    <3>1. GaveWay(list, b, c)
      <4>1. TwoOk(list, b, c)
        BY <1>4, <2>2
      <4>2. ~GaveWay(list, c, b)
        BY <1>12 DEF GaveWay
      <4> QED BY <1>15, <4>1, <4>2 DEF TwoOk
    <3> DEFINE d == list[b].successor
    <3>2. /\ list[b].last < list[c].first /\ list[b].order < list[c].order
          /\ d # NoAddress /\ (d = c \/ list[d].last < list[c].first)
      BY <3>1 DEF GaveWay
    <3>3. d \in Addresses /\ d \in On(list)
      BY <1>5, <3>2
    <3>4. list[c].first <= list[c].last
      BY <1>6
    <3>5. g[b].successor = d /\ g[b].last = list[b].last /\ g[b].order = list[b].order
          /\ g[d].last = list[d].last /\ g[a].first = list[a].first /\ g[a].order = list[a].order
      BY ONLY <1>11, <1>12, <2>0, <2>2, <3>3
    <3> HIDE DEF d
    <3>6. list[b].last < list[a].first /\ list[b].order < list[a].order
          /\ list[d].last < list[a].first
      BY ONLY <1>2, <1>8, <1>12, <2>0, <3>2, <3>3, <3>4
    <3> QED BY ONLY <3>2, <3>5, <3>6 DEF GaveWay
  <2> QED BY <2>1, <2>2
<1>16. ASSUME NEW b \in On(list), NEW d \in On(list), b # d PROVE TwoOk(g, b, d)
  <2>1. TwoOk(list, b, d) /\ b \in Addresses /\ d \in Addresses
    BY <1>1, <1>4, <1>16
  <2>2. g[b].order # g[d].order
    BY ONLY <1>11, <2>1 DEF TwoOk
  <2>3. ASSUME g[b].group = g[d].order PROVE g[d].group = g[d].order
    <3>1. d # a
      <4>1. d = a => b # a /\ list[b].group = list[a].order
        BY ONLY <1>11, <1>16, <2>1, <2>3
      <4> QED BY <1>9, <4>1
    <3>2. CASE b = a
      <4>1. list[c].group = list[d].order
        BY ONLY <1>11, <1>12, <2>1, <2>3, <3>2
      <4>2. list[d].group = list[d].order
        <5>1. CASE d = c
          BY <4>1, <5>1
        <5>2. CASE d # c
          <6>1. TwoOk(list, c, d)
            BY <1>4, <5>2
          <6> QED BY ONLY <4>1, <6>1 DEF TwoOk
        <5> QED BY <5>1, <5>2
      <4> QED BY ONLY <1>11, <2>1, <3>1, <4>2
    <3>3. CASE b # a
      BY ONLY <1>11, <2>1, <2>3, <3>1, <3>3 DEF TwoOk
    <3> QED BY <3>2, <3>3
  <2>4. ASSUME g[b].group = g[d].group PROVE GaveWay(g, b, d) \/ GaveWay(g, d, b)
    <3>1. CASE b = a
      <4>1. d # a /\ list[d].group = list[c].group
        BY ONLY <1>11, <1>12, <1>16, <2>1, <2>4, <3>1
      <4> QED BY <1>15, <3>1, <4>1
    <3>2. CASE d = a
      <4>1. b # a /\ list[b].group = list[c].group
        BY ONLY <1>11, <1>12, <1>16, <2>1, <2>4, <3>2
      <4> QED BY <1>15, <3>2, <4>1
    <3>3. CASE b # a /\ d # a
      <4>1. list[b].group = list[d].group
        BY ONLY <1>11, <2>1, <2>4, <3>3
      <4>2. GaveWay(list, b, d) \/ GaveWay(list, d, b)
        BY ONLY <2>1, <4>1 DEF TwoOk
      <4> QED BY <1>14, <4>2
    <3> QED BY <3>1, <3>2, <3>3
  <2> QED BY ONLY <2>2, <2>3, <2>4 DEF TwoOk
<1> QED BY <1>1, <1>7, <1>13, <1>16 DEF GroupsOk

\* Room is made, by taking off the address heard least recently, or there is room.
LEMMA RoomOk ==
  ASSUME NEW list, NEW next, NEW now, GroupsOk(list, next, now), NEW room \in Evict(list)
  PROVE  GroupsOk(room, next, now) /\ On(room) \subseteq On(list)
<1>1. CASE room = list
  BY <1>1
<1>2. CASE room # list
  <2>1. PICK x \in On(list) : /\ \A b \in On(list) : list[x].last <= list[b].last
                              /\ room = [list EXCEPT ![x] = NoDevice]
    BY <1>2 DEF Evict, On
  <2>2. GroupsOk(room, next, now)
    BY <2>1, GoneOk
  <2>3. list \in Lists
    BY DEF GroupsOk
  <2>4. \A b \in Addresses : b # x => room[b] = list[b]
    BY <2>1, <2>3 DEF Lists
  <2>5. On(room) \subseteq On(list)
    BY <2>1, <2>4 DEF On
  <2> QED BY <2>2, <2>5
<1> QED BY <1>1, <1>2

\* What follows an address that is not listed yet, once it is entered and heard.
LEMMA FirstHeardIs ==
  ASSUME NEW list \in Lists, NEW a \in Addresses, a \notin On(list), nextOrder \in Nat,
         captureIndex \in Nat
  PROVE  LET g == Heard(UnlinkSuccessor(Enter(list, a), a), a)
         IN /\ g \in Lists /\ \A b \in Addresses : b # a => g[b] = list[b]
            /\ g[a].order = nextOrder /\ g[a].group = nextOrder /\ g[a].successor = NoAddress
            /\ g[a].first = captureIndex /\ g[a].last = captureIndex /\ g[a].checked = FALSE
<1> DEFINE e == [NoDevice EXCEPT !.order = nextOrder, !.group = nextOrder,
                                 !.first = captureIndex]
           f == Enter(list, a)
           e1 == [f[a] EXCEPT !.successor = NoAddress]
           h == UnlinkSuccessor(f, a)
           p == IF h[a].packets < LinkPackets THEN h[a].packets + 1 ELSE h[a].packets
           e2 == [h[a] EXCEPT !.last = captureIndex, !.packets = p]
           g == Heard(h, a)
<1>1. /\ e \in SrDevice /\ e.order = nextOrder /\ e.group = nextOrder
      /\ e.successor = NoAddress /\ e.first = captureIndex /\ e.checked = FALSE
      /\ e.packets = 0
  BY DEF NoDevice, SrDevice
<1>2. f = SrPut(list, a, e)
  BY DeviceIs DEF Enter, On
<1> HIDE DEF e, f
<1>3. f \in Lists /\ f[a] = e /\ \A b \in Addresses : b # a => f[b] = list[b]
  BY <1>1, <1>2, PutIs
<1>4. /\ e1 \in SrDevice /\ e1.order = nextOrder /\ e1.group = nextOrder
      /\ e1.successor = NoAddress /\ e1.first = captureIndex /\ e1.checked = FALSE
      /\ e1.packets = 0
  BY <1>1, <1>3 DEF SrDevice
<1>5. h = SrPut(f, a, e1)
  BY <1>1, <1>3 DEF UnlinkSuccessor
<1> HIDE DEF e1, h
<1>6. h \in Lists /\ h[a] = e1 /\ \A b \in Addresses : b # a => h[b] = f[b]
  BY <1>3, <1>4, <1>5, PutIs
<1>7. p \in Nat
  BY <1>4, <1>6
<1>8. g = SrPut(h, a, e2)
  BY DEF Heard
<1> HIDE DEF p
<1>9. /\ e2 \in SrDevice /\ e2.order = nextOrder /\ e2.group = nextOrder
      /\ e2.successor = NoAddress /\ e2.first = captureIndex /\ e2.checked = FALSE
      /\ e2.last = captureIndex
  BY <1>4, <1>6, <1>7 DEF SrDevice
<1> HIDE DEF e2, g
<1>10. g \in Lists /\ g[a] = e2 /\ \A b \in Addresses : b # a => g[b] = h[b]
  BY <1>6, <1>8, <1>9, PutIs
<1>11. \A b \in Addresses : b # a => g[b] = list[b]
  BY <1>3, <1>6, <1>10
<1> QED BY <1>9, <1>10, <1>11 DEF g, h, f

\* An address heard in the capture at work, new or known: the groups stay sound.
LEMMA HeardOk ==
  ASSUME NEW list, GroupsOk(list, nextOrder, captureIndex), NEW a \in Addresses
  PROVE  LET g == Heard(UnlinkSuccessor(Enter(list, a), a), a)
             next == IF a \in On(list) THEN nextOrder ELSE nextOrder + 1
         IN GroupsOk(g, next, captureIndex) /\ a \in On(g) /\ g[a].successor = NoAddress
<1> DEFINE g == Heard(UnlinkSuccessor(Enter(list, a), a), a)
<1>1. list \in Lists /\ nextOrder \in Nat /\ captureIndex \in Nat /\ 1 <= nextOrder
  BY DEF GroupsOk
<1>2. CASE a \notin On(list)
  <2>1. /\ g \in Lists /\ \A b \in Addresses : b # a => g[b] = list[b]
        /\ g[a].order = nextOrder /\ g[a].group = nextOrder /\ g[a].successor = NoAddress
        /\ g[a].first = captureIndex /\ g[a].last = captureIndex /\ g[a].checked = FALSE
    BY <1>1, <1>2, FirstHeardIs
  <2> HIDE DEF g
  <2>2. GroupsOk(g, nextOrder + 1, captureIndex)
    BY <1>2, <2>1, NewOk
  <2>3. a \in On(g)
    BY <1>1, <2>1 DEF On
  <2> QED BY <1>2, <2>1, <2>2, <2>3 DEF g
<1>3. CASE a \in On(list)
  <2> DEFINE s == list[a].successor
             n == list[s].order
  <2>1. LinkPackets \in Nat
    BY ShortRangeAssumption
  <2>2. Enter(list, a) = list
    BY <1>3 DEF Enter, On
  <2>3. /\ g \in Lists
        /\ g[a].successor = NoAddress /\ g[a].last = captureIndex
        /\ g[a].order = list[a].order /\ g[a].group = list[a].group
        /\ g[a].first = list[a].first /\ g[a].checked = list[a].checked
        /\ \A b \in Addresses : b # a =>
             /\ b \notin Later(list, a) => g[b] = list[b]
             /\ b \in Later(list, a) => g[b] = [list[b] EXCEPT !.group = n]
    BY <1>3, <2>1, <2>2, HeardIs
  <2> HIDE DEF g, n
  <2>4. /\ a \notin Later(list, a) /\ \A b \in Later(list, a) : b \in On(list)
    BY <1>3, LaterIs
  <2>5. \A b \in Addresses : list[b] \in SrDevice
    BY <1>1 DEF Lists
  <2>6. \A b \in Addresses :
          /\ g[b].order = list[b].order /\ g[b].first = list[b].first
          /\ g[b].checked = list[b].checked
          /\ b # a => g[b].last = list[b].last /\ g[b].successor = list[b].successor
          /\ b \notin Later(list, a) => g[b].group = list[b].group
          /\ b \in Later(list, a) => g[b].group = n
    BY <2>3, <2>4, <2>5 DEF SrDevice
  <2>7. \A b \in Addresses \ On(list) : g[b] = NoDevice
    BY <1>3, <2>3, <2>4 DEF GroupsOk
  <2>8. Later(list, a) # {} => n = list[s].order
    BY DEF n
  <2>9. GroupsOk(g, nextOrder, captureIndex)
    <3>1. g \in Lists /\ g[a].successor = NoAddress /\ g[a].last = captureIndex
      BY <2>3
    <3>2. HeardAgain(list, g, a, n, captureIndex)
      BY ONLY <2>6, <2>7, <2>8, <3>1 DEF HeardAgain, s
    <3> QED BY <1>3, <3>1, <3>2, KnownOk
  <2>10. a \in On(g)
    BY <1>3, <2>3 DEF On
  <2> QED BY <1>3, <2>3, <2>9, <2>10 DEF g
<1> QED BY <1>2, <1>3

\* An address looked at once it was heard often enough, whichever it is linked to.
LEMMA LinkedOk ==
  ASSUME NEW list, NEW next, NEW now, GroupsOk(list, next, now), NEW a \in On(list),
         list[a].successor = NoAddress, NEW g \in Linked(list, a)
  PROVE  GroupsOk(g, next, now)
<1> DEFINE T(group) == [list[a] EXCEPT !.checked = TRUE, !.group = group]
           tried(group) == SrPut(list, a, T(group))
<1>1. list \in Lists /\ a \in Addresses
  BY DEF GroupsOk, On
<1>2. list[a] \in SrDevice
  BY <1>1 DEF Lists
<1>3. ASSUME NEW group \in Nat
      PROVE  /\ T(group) \in SrDevice /\ T(group).order = list[a].order
             /\ T(group).first = list[a].first /\ T(group).last = list[a].last
             /\ T(group).successor = NoAddress /\ T(group).checked = TRUE
             /\ T(group).group = group
             /\ tried(group) \in Lists /\ tried(group)[a] = T(group)
             /\ \A b \in Addresses : b # a => tried(group)[b] = list[b]
  <2>1. /\ T(group) \in SrDevice /\ T(group).order = list[a].order
        /\ T(group).first = list[a].first /\ T(group).last = list[a].last
        /\ T(group).successor = NoAddress /\ T(group).checked = TRUE
        /\ T(group).group = group
    BY <1>2 DEF SrDevice
  <2> HIDE DEF T
  <2> QED BY <1>1, <2>1, PutIs
<1>4. CASE g = list
  BY <1>4
<1>5. CASE g = tried(list[a].group)
  <2>1. list[a].group \in Nat
    BY <1>1, DeviceIs
  <2>2. T(list[a].group) = [list[a] EXCEPT !.checked = TRUE]
    BY <1>2 DEF SrDevice
  <2>3. g \in Lists /\ g[a] = [list[a] EXCEPT !.checked = TRUE]
        /\ \A b \in Addresses : b # a => g[b] = list[b]
    BY <1>3, <1>5, <2>1, <2>2
  <2> QED BY <2>3, TriedOk
<1>6. ASSUME list[a].checked # TRUE, NEW c \in Followable(list, a),
             g = SrPut(tried(list[c].group), c, [list[c] EXCEPT !.successor = a])
      PROVE  GroupsOk(g, next, now)
  <2> DEFINE h == tried(list[c].group)
             e == [list[c] EXCEPT !.successor = a]
  <2>1. /\ c \in Addresses /\ c # a /\ list[c].order \in 1..list[a].order
        /\ list[c].successor = NoAddress /\ list[c].last < list[a].first
    BY DEF Followable
  <2>2. /\ list[c].group \in Nat /\ list[c].order \in Nat /\ list[c] \in SrDevice
        /\ list[a].order \in Nat
    BY <1>1, <2>1, DeviceIs
  <2>3. c \in On(list) /\ list[c].order <= list[a].order
    BY <2>1, <2>2 DEF On
  <2>4. /\ h \in Lists /\ h[a] = T(list[c].group)
        /\ \A b \in Addresses : b # a => h[b] = list[b]
    BY <1>3, <2>2
  <2>5. /\ e \in SrDevice /\ e.order = list[c].order /\ e.first = list[c].first
        /\ e.last = list[c].last /\ e.group = list[c].group /\ e.checked = list[c].checked
        /\ e.successor = a
    BY <1>1, <2>2 DEF SrDevice
  <2>6. g = SrPut(h, c, e)
    BY <1>6
  <2> DEFINE t == T(list[c].group)
  <2>11. /\ t.order = list[a].order /\ t.first = list[a].first /\ t.last = list[a].last
        /\ t.successor = NoAddress /\ t.checked = TRUE /\ t.group = list[c].group
        /\ h[a] = t /\ list[a].successor = NoAddress
    BY <1>3, <2>2, <2>4
  <2> HIDE DEF t, T
  <2> HIDE DEF h, e
  <2>7. g \in Lists /\ g[c] = e /\ \A b \in Addresses : b # c => g[b] = h[b]
    BY <2>1, <2>4, <2>5, <2>6, PutIs
  <2>8. \A b \in Addresses :
          /\ g[b].order = list[b].order /\ g[b].first = list[b].first
          /\ g[b].last = list[b].last
          /\ b # a => g[b].group = list[b].group /\ g[b].checked = list[b].checked
          /\ b # c => g[b].successor = list[b].successor
    <3> SUFFICES ASSUME NEW b \in Addresses
                 PROVE  /\ g[b].order = list[b].order /\ g[b].first = list[b].first
                        /\ g[b].last = list[b].last
                        /\ b # a => g[b].group = list[b].group
                        /\ b # a => g[b].checked = list[b].checked
                        /\ b # c => g[b].successor = list[b].successor
      OBVIOUS
    <3>1. CASE b = c
      BY <2>1, <2>5, <2>7, <3>1
    <3>2. CASE b = a
      BY <1>1, <2>1, <2>7, <2>11, <3>2
    <3>3. CASE b # a /\ b # c
      BY <2>4, <2>7, <3>3
    <3> QED BY <3>1, <3>2, <3>3
  <2>9. g[a].group = list[c].group /\ g[a].checked = TRUE /\ g[c].successor = a
    BY <1>1, <2>1, <2>5, <2>7, <2>11
  <2>10. \A b \in Addresses \ On(list) : g[b] = NoDevice
    <3>1. \A b \in Addresses \ On(list) : b # a /\ b # c /\ list[b] = NoDevice
      BY <2>3 DEF GroupsOk
    <3>2. ASSUME NEW b \in Addresses \ On(list) PROVE g[b] = NoDevice
      <4>1. b \in Addresses /\ b # a /\ b # c /\ list[b] = NoDevice
        BY <3>1
      <4>2. g[b] = h[b] /\ h[b] = list[b]
        BY ONLY <2>4, <2>7, <4>1
      <4> QED BY ONLY <4>1, <4>2
    <3> QED BY <3>2
  <2>12. FollowsNow(list, g, a, c)
    BY <2>8, <2>9, <2>10 DEF FollowsNow
  <2> QED BY <1>6, <2>1, <2>3, <2>7, <2>12, LinkOk
<1> QED BY <1>4, <1>5, <1>6 DEF Linked

\* What holds of the list after every step.
SrInv == GroupsOk(ble, nextOrder, captureIndex)

\* An empty list is sound.
LEMMA NoneOk ==
  ASSUME NEW next \in Nat, 1 <= next, NEW now \in Nat
  PROVE  GroupsOk([a \in Addresses |-> NoDevice], next, now)
<1> DEFINE list == [a \in Addresses |-> NoDevice]
<1>1. NoDevice \in SrDevice /\ NoDevice.order = 0
  BY DEF NoDevice, SrDevice
<1>2. list \in Lists /\ \A a \in Addresses : list[a] = NoDevice
  BY <1>1 DEF Lists
<1> HIDE DEF list
<1>3. On(list) = {}
  BY <1>1, <1>2 DEF On
<1>4. GroupsOk(list, next, now)
  BY <1>2, <1>3 DEF GroupsOk
<1> QED BY <1>4 DEF list

\* A capture decoded: what is listed was heard before it.
LEMMA LaterCaptureOk ==
  ASSUME NEW list, NEW next, NEW now, GroupsOk(list, next, now)
  PROVE  GroupsOk(list, next, now + 1)
<1>1. list \in Lists /\ now \in Nat
  BY DEF GroupsOk
<1>2. ASSUME NEW a \in On(list) PROVE OneOk(list, a, next, now + 1)
  <2>1. OneOk(list, a, next, now) /\ list[a].last \in Nat
    BY <1>1, DeviceIs DEF GroupsOk, On
  <2>2. list[a].last <= now + 1
    <3>1. list[a].last <= now
      BY <2>1 DEF OneOk
    <3> QED BY ONLY <1>1, <2>1, <3>1
  <2> QED BY ONLY <2>1, <2>2 DEF OneOk
<1> QED BY <1>1, <1>2 DEF GroupsOk

\* A packet of one sender leaves the list sound.
LEMMA IngestOk ==
  ASSUME SrInv, NEW a \in Addresses, IngestBle(a)
  PROVE  SrInv'
<1>1. PICK room \in IF a \in Listed THEN {ble} ELSE Evict(ble), advertisement \in BOOLEAN :
        ble' \in IF advertisement
                 THEN Linked(Heard(UnlinkSuccessor(Enter(room, a), a), a), a)
                 ELSE {Heard(UnlinkSuccessor(Enter(room, a), a), a)}
  BY DEF IngestBle
<1>2. Listed = On(ble)
  BY DEF Listed, On
<1>3. /\ GroupsOk(room, nextOrder, captureIndex)
      /\ (a \in On(room)) = (a \in On(ble))
  <2>1. CASE a \in Listed
    BY <1>1, <2>1 DEF SrInv
  <2>2. CASE a \notin Listed
    <3>1. room \in Evict(ble)
      BY <1>1, <2>2
    <3> QED BY <1>2, <2>2, <3>1, RoomOk DEF SrInv
  <2> QED BY <2>1, <2>2
<1> DEFINE heard == Heard(UnlinkSuccessor(Enter(room, a), a), a)
           next == IF a \in On(room) THEN nextOrder ELSE nextOrder + 1
<1>4. GroupsOk(heard, next, captureIndex) /\ a \in On(heard) /\ heard[a].successor = NoAddress
  BY <1>3, HeardOk
<1>5. nextOrder' = next /\ captureIndex' = captureIndex
  BY <1>2, <1>3 DEF IngestBle
<1>6. ble' \in Linked(heard, a) \/ ble' = heard
  BY <1>1
<1> HIDE DEF heard, next
<1>7. GroupsOk(ble', next, captureIndex)
  BY <1>4, <1>6, LinkedOk
<1> QED BY <1>5, <1>7 DEF SrInv

\* A sound list: two addresses in one group were on air one after the other.
LEMMA GroupsOkSound ==
  SrInv => SrGroupsSound
<1> SUFFICES ASSUME SrInv, NEW a \in Listed, NEW b \in Listed, a # b
             PROVE  /\ ble[a].group = ble[b].group => SpanOf(a) \cap SpanOf(b) = {}
                    /\ ble[a].successor = b => ble[a].group = ble[b].group
  BY DEF SrGroupsSound
<1>1. /\ a \in On(ble) /\ b \in On(ble) /\ a \in Addresses /\ b \in Addresses
      /\ b # NoAddress
  BY ShortRangeAssumption DEF Listed, On
<1>2. /\ ble[a].first \in Nat /\ ble[a].last \in Nat
      /\ ble[b].first \in Nat /\ ble[b].last \in Nat
  BY <1>1, DeviceIs DEF SrInv, GroupsOk
<1>3. ASSUME ble[a].group = ble[b].group PROVE SpanOf(a) \cap SpanOf(b) = {}
  <2>1. TwoOk(ble, a, b)
    BY <1>1 DEF SrInv, GroupsOk
  <2>2. ble[a].last < ble[b].first \/ ble[b].last < ble[a].first
    BY ONLY <1>3, <2>1 DEF TwoOk, GaveWay
  <2> QED BY ONLY <1>2, <2>2 DEF SpanOf
<1>4. ASSUME ble[a].successor = b PROVE ble[a].group = ble[b].group
  <2>1. ble[ble[a].successor].group = ble[a].group
    BY <1>1, <1>4, SuccessorIs DEF SrInv
  <2> QED BY <1>4, <2>1
<1> QED BY <1>3, <1>4

\* Every step leaves the list sound.
LEMMA SrInvStep ==
  SrInv /\ [SrNext]_srVars => SrInv'
<1> SUFFICES ASSUME SrInv, [SrNext]_srVars PROVE SrInv'
  OBVIOUS
<1> USE DEF SrInv
<1>1. CASE SrReserve
  BY <1>1 DEF SrReserve
<1>2. CASE SrObserver
  BY <1>2 DEF SrObserver, SrPush, SrCopyFails
<1>3. CASE SrTake \/ SrDecodeFails \/ SrDone \/ SrGiveBack
  BY <1>3 DEF SrTake, SrDecodeFails, SrDone, SrGiveBack
<1>4. CASE SrDecoded
  BY <1>4, LaterCaptureOk DEF SrDecoded
<1>5. ASSUME NEW a \in Addresses, IngestBle(a) PROVE SrInv'
  BY <1>5, IngestOk
<1>6. CASE SrClear
  <2>1. nextOrder \in Nat /\ 1 <= nextOrder /\ captureIndex \in Nat
    BY DEF GroupsOk
  <2> QED BY <1>6, <2>1, NoneOk DEF SrClear
<1>7. CASE UNCHANGED srVars
  BY <1>7 DEF srVars
<1> QED BY <1>1, <1>2, <1>3, <1>4, <1>5, <1>6, <1>7 DEF SrNext, SrWorkerStep

-----------------------------------------------------------------------------
(* The byte budget of the queued captures *)

\* The bytes of the first captures of a queue.
Totals(sizes) == CHOOSE t : t = [k \in 0..Len(sizes) |->
                                   IF k = 0 THEN 0 ELSE t[k - 1] + sizes[k]]

\* They are what the recursion of BytesOf says, and numbers.
LEMMA TotalsAre ==
  ASSUME NEW sizes \in Seq(Nat)
  PROVE  /\ BytesOf(sizes) = Totals(sizes)[Len(sizes)]
         /\ Totals(sizes)[0] = 0
         /\ \A k \in 1..Len(sizes) : Totals(sizes)[k] = Totals(sizes)[k - 1] + sizes[k]
         /\ \A k \in 0..Len(sizes) : Totals(sizes)[k] \in Nat
<1> DEFINE n == Len(sizes)
           step == [p \in (1..n) \X Nat |-> p[2] + sizes[p[1]]]
           t == Totals(sizes)
<1>1. n \in Nat /\ \A k \in 1..n : sizes[k] \in Nat
  OBVIOUS
<1>2. BytesOf(sizes) = t[n]
  BY DEF BytesOf, Totals
<1>3. PICK f : Iterates(f, 0, step, n)
  BY <1>1, IteratesExists
<1>4. \A k \in 0..n : f[k] = IF k = 0 THEN 0 ELSE step[<<k, f[k - 1]>>]
  BY <1>3 DEF Iterates
<1>5. \A k \in 1..n, x \in Nat : step[<<k, x>>] = x + sizes[k]
  OBVIOUS
<1> HIDE DEF n, step
<1>6. \A k \in 0..n : f[k] \in Nat
  <2> DEFINE S == {k \in 0..n : f[k] \in Nat}
  <2>1. 0 \in S
    <3>1. 0 \in 0..n
      BY <1>1
    <3>2. f[0] = 0
      BY ONLY <1>4, <3>1
    <3> QED BY <3>1, <3>2
  <2>2. ASSUME NEW k \in 1..n, k - 1 \in S PROVE k \in S
    <3>1. k \in 0..n /\ k # 0 /\ f[k - 1] \in Nat
      BY <1>1, <2>2
    <3>2. f[k] = step[<<k, f[k - 1]>>]
      BY ONLY <1>4, <3>1
    <3>3. f[k] = f[k - 1] + sizes[k] /\ sizes[k] \in Nat
      BY ONLY <1>1, <1>5, <3>1, <3>2, k \in 1..n
    <3> QED BY ONLY <3>1, <3>3 DEF S
  <2> HIDE DEF S
  <2>3. \A k \in 0..n : k \in S
    BY <1>1, <2>1, <2>2, UpTo
  <2> QED BY <2>3 DEF S
<1>7. \A k \in 0..n : f[k] = IF k = 0 THEN 0 ELSE f[k - 1] + sizes[k]
  <2> SUFFICES ASSUME NEW k \in 0..n
               PROVE  f[k] = IF k = 0 THEN 0 ELSE f[k - 1] + sizes[k]
    OBVIOUS
  <2>1. CASE k = 0
    BY <1>4, <2>1
  <2>2. CASE k # 0
    <3>1. k \in 1..n /\ k - 1 \in 0..n
      BY <1>1, <2>2
    <3>2. f[k] = step[<<k, f[k - 1]>>]
      BY ONLY <1>4, <2>2, k \in 0..n
    <3>3. f[k] = f[k - 1] + sizes[k]
      BY ONLY <1>5, <1>6, <3>1, <3>2
    <3> QED BY ONLY <2>2, <3>3
  <2> QED BY <2>1, <2>2
<1>8. f = [k \in 0..n |-> IF k = 0 THEN 0 ELSE f[k - 1] + sizes[k]]
  <2>1. f = [k \in 0..n |-> f[k]]
    BY <1>3 DEF Iterates
  <2> QED BY ONLY <1>7, <2>1
<1>9. t = [k \in 0..n |-> IF k = 0 THEN 0 ELSE t[k - 1] + sizes[k]]
  BY <1>8 DEF Totals, n
<1> HIDE DEF t
<1>10. t[0] = 0 /\ \A k \in 1..n : t[k] = t[k - 1] + sizes[k]
  BY <1>1, <1>9
<1>11. \A k \in 0..n : t[k] \in Nat
  <2> DEFINE S == {k \in 0..n : t[k] \in Nat}
  <2>1. 0 \in S
    BY <1>1, <1>10
  <2>2. \A k \in 1..n : k - 1 \in S => k \in S
    BY <1>1, <1>10
  <2> HIDE DEF S
  <2>3. \A k \in 0..n : k \in S
    BY <1>1, <2>1, <2>2, UpTo
  <2> QED BY <2>3 DEF S
<1> QED BY <1>2, <1>10, <1>11 DEF t, n

\* What a queue holds with one more capture, and without its first.
LEMMA BytesAre ==
  ASSUME NEW sizes \in Seq(Nat)
  PROVE  /\ BytesOf(sizes) \in Nat /\ BytesOf(<<>>) = 0
         /\ \A b \in Nat : BytesOf(Append(sizes, b)) = BytesOf(sizes) + b
         /\ sizes # <<>> => BytesOf(sizes) = Head(sizes) + BytesOf(Tail(sizes))
<1> DEFINE n == Len(sizes)
           t == Totals(sizes)
<1>1. /\ n \in Nat /\ BytesOf(sizes) = t[n] /\ t[0] = 0
      /\ \A k \in 1..n : t[k] = t[k - 1] + sizes[k]
      /\ \A k \in 0..n : t[k] \in Nat
      /\ \A k \in 1..n : sizes[k] \in Nat
  BY TotalsAre
<1> HIDE DEF t
<1>2. BytesOf(sizes) \in Nat
  BY <1>1
<1>3. BytesOf(<<>>) = 0
  <2>1. <<>> \in Seq(Nat) /\ Len(<<>>) = 0
    OBVIOUS
  <2> QED BY <2>1, TotalsAre
<1>4. ASSUME NEW b \in Nat PROVE BytesOf(Append(sizes, b)) = BytesOf(sizes) + b
  <2> DEFINE s == Append(sizes, b)
             u == Totals(s)
  <2>1. s \in Seq(Nat) /\ Len(s) = n + 1 /\ s[n + 1] = b /\ \A k \in 1..n : s[k] = sizes[k]
    OBVIOUS
  <2>2. /\ BytesOf(s) = u[n + 1] /\ u[0] = 0
        /\ \A k \in 1..(n + 1) : u[k] = u[k - 1] + s[k]
    BY <2>1, TotalsAre
  <2> HIDE DEF s, u
  <2> DEFINE T == [k \in Nat |-> {t[k]}]
  <2>3. u[0] \in T[0]
    BY <1>1, <2>2
  <2>4. \A k \in 1..n : u[k - 1] \in T[k - 1] => u[k] \in T[k]
    <3> SUFFICES ASSUME NEW k \in 1..n, u[k - 1] \in T[k - 1] PROVE u[k] \in T[k]
      OBVIOUS
    <3>1. k \in Nat /\ k - 1 \in Nat /\ k \in 1..(n + 1)
      BY <1>1
    <3>2. u[k - 1] = t[k - 1] /\ u[k] = u[k - 1] + s[k] /\ s[k] = sizes[k]
      BY <2>1, <2>2, <3>1
    <3>3. u[k] = t[k]
      BY <1>1, <3>2
    <3> QED BY <3>1, <3>3
  <2> HIDE DEF T
  <2>5. u[n] \in T[n]
    <3>1. \A k \in 0..n : u[k] \in T[k]
      BY ONLY <1>1, <2>3, <2>4, IteratesIn
    <3> QED BY ONLY <1>1, <3>1
  <2>6. u[n] = t[n] /\ n + 1 \in 1..(n + 1) /\ (n + 1) - 1 = n
    BY <1>1, <2>5 DEF T
  <2>7. u[n + 1] = u[n] + s[n + 1]
    BY <2>2, <2>6
  <2> QED BY <1>1, <2>1, <2>2, <2>6, <2>7 DEF s
<1>5. ASSUME sizes # <<>> PROVE BytesOf(sizes) = Head(sizes) + BytesOf(Tail(sizes))
  <2> DEFINE s == Tail(sizes)
             u == Totals(s)
             b == Head(sizes)
  <2>1. /\ s \in Seq(Nat) /\ n > 0 /\ Len(s) = n - 1 /\ b = sizes[1]
        /\ \A k \in 1..(n - 1) : s[k] = sizes[k + 1]
    BY <1>5
  <2>2. /\ BytesOf(s) = u[n - 1] /\ u[0] = 0
        /\ \A k \in 1..(n - 1) : u[k] = u[k - 1] + s[k]
        /\ \A k \in 0..(n - 1) : u[k] \in Nat
    BY <2>1, TotalsAre
  <2> HIDE DEF s, u, b, n
  <2>3. 1 \in 1..n /\ n - 1 \in Nat /\ (n - 1) + 1 = n /\ b \in Nat
    BY <1>1, <2>1
  <2> DEFINE T == [k \in Nat |-> {x \in Nat : t[k + 1] = b + x}]
  <2>4. u[0] \in T[0]
    <3>1. t[1] = t[1 - 1] + sizes[1] /\ 1 - 1 = 0 /\ sizes[1] \in Nat
      BY <1>1, <2>3
    <3> QED BY <1>1, <2>1, <2>2, <2>3, <3>1
  <2>5. \A k \in 1..(n - 1) : u[k - 1] \in T[k - 1] => u[k] \in T[k]
    <3> SUFFICES ASSUME NEW k \in 1..(n - 1), u[k - 1] \in T[k - 1] PROVE u[k] \in T[k]
      OBVIOUS
    <3>1. /\ k \in Nat /\ k - 1 \in Nat /\ k \in 0..(n - 1) /\ k + 1 \in 1..n /\ k \in 0..n
          /\ (k - 1) + 1 = k /\ (k + 1) - 1 = k
      BY <1>1, <2>3
    <3>2. t[k] = b + u[k - 1] /\ u[k] = u[k - 1] + s[k] /\ s[k] = sizes[k + 1]
      BY <2>1, <2>2, <3>1
    <3>3. t[k + 1] = t[k] + sizes[k + 1]
      BY <1>1, <3>1
    <3>4. u[k] \in Nat /\ u[k - 1] \in Nat /\ sizes[k + 1] \in Nat /\ t[k] \in Nat
      BY <1>1, <2>2, <3>1
    <3>5. t[k + 1] = b + u[k]
      BY ONLY SMTT(30), <2>3, <3>2, <3>3, <3>4
    <3> QED BY <3>1, <3>4, <3>5
  <2> HIDE DEF T
  <2>6. u[n - 1] \in T[n - 1]
    <3>1. \A k \in 0..(n - 1) : u[k] \in T[k]
      BY ONLY <2>3, <2>4, <2>5, IteratesIn
    <3> QED BY ONLY <2>3, <3>1
  <2>7. t[(n - 1) + 1] = b + u[n - 1]
    BY <2>3, <2>6 DEF T
  <2> QED BY <1>1, <2>2, <2>3, <2>7 DEF s, b
<1> QED BY <1>2, <1>3, <1>4, <1>5


\* What the copy, the queue and the worker hold of the byte budget.
SrTyped ==
  /\ pendingSr \in Seq(Nat) /\ pendingBytes \in Nat
  /\ srObserve = [at |-> srObserve.at, bytes |-> srObserve.bytes, left |-> srObserve.left]
  /\ srWorker = [at |-> srWorker.at, bytes |-> srWorker.bytes, left |-> srWorker.left]
  /\ srObserve.bytes \in Nat /\ srWorker.bytes \in Nat
  /\ srObserve.at = "idle" => srObserve.bytes = 0
  /\ srWorker.at = "idle" => srWorker.bytes = 0

SrHeld == SrTyped /\ SrBudget

\* Nothing is held at the start.
LEMMA SrHeldInit == SrInit => SrHeld
<1> SUFFICES ASSUME SrInit PROVE SrHeld
  OBVIOUS
<1>1. pendingSr \in Seq(Nat) /\ pendingSr = <<>> /\ pendingBytes = 0
  BY DEF SrInit
<1>2. /\ srObserve = [at |-> "idle", bytes |-> 0, left |-> 0]
      /\ srWorker = [at |-> "idle", bytes |-> 0, left |-> 0]
  BY DEF SrInit, SrIdle
<1>3. BytesOf(<<>>) = 0
  BY <1>1, BytesAre
<1>4. SrBytes \in Nat
  BY ShortRangeAssumption
<1>5. SrTyped
  BY ONLY <1>1, <1>2 DEF SrTyped
<1>6. SrBudget
  BY ONLY <1>1, <1>2, <1>3, <1>4 DEF SrBudget
<1> QED BY <1>5, <1>6 DEF SrHeld

\* Every step gives back exactly what was reserved.
LEMMA SrHeldStep == SrHeld /\ [SrNext]_srVars => SrHeld'
<1> SUFFICES ASSUME SrHeld, [SrNext]_srVars PROVE SrHeld'
  OBVIOUS
<1> DEFINE o == srObserve.bytes
           w == srWorker.bytes
           q == BytesOf(pendingSr)
<1>1. /\ pendingSr \in Seq(Nat) /\ pendingBytes \in Nat
      /\ srObserve = [at |-> srObserve.at, bytes |-> srObserve.bytes, left |-> srObserve.left]
      /\ srWorker = [at |-> srWorker.at, bytes |-> srWorker.bytes, left |-> srWorker.left]
      /\ o \in Nat /\ w \in Nat
      /\ srObserve.at = "idle" => o = 0
      /\ srWorker.at = "idle" => w = 0
      /\ pendingBytes = o + w + q
      /\ pendingBytes <= SrBytes
  BY DEF SrHeld, SrTyped, SrBudget
<1>2. q \in Nat /\ SrBytes \in Nat
  BY <1>1, BytesAre, ShortRangeAssumption
<1>3. CASE SrReserve
  <2>1. UNCHANGED <<pendingSr, srWorker>> /\ srObserve.at = "idle"
    BY <1>3 DEF SrReserve
  <2>2. PICK bytes \in 1..2 :
          \/ UNCHANGED <<srObserve, pendingBytes>>
          \/ /\ ~(pendingBytes + bytes > SrBytes)
             /\ pendingBytes' = pendingBytes + bytes
             /\ srObserve' = [at |-> "copy", bytes |-> bytes, left |-> 0]
    BY <1>3 DEF SrReserve
  <2>3. CASE UNCHANGED <<srObserve, pendingBytes>>
    BY <1>1, <2>1, <2>3 DEF SrHeld, SrTyped, SrBudget
  <2>4. CASE /\ ~(pendingBytes + bytes > SrBytes)
             /\ pendingBytes' = pendingBytes + bytes
             /\ srObserve' = [at |-> "copy", bytes |-> bytes, left |-> 0]
    <3>1. o = 0 /\ bytes \in Nat
      BY <1>1, <2>1
    <3>2. pendingBytes' = bytes + w + q /\ pendingBytes' <= SrBytes /\ pendingBytes' \in Nat
      BY ONLY <1>1, <1>2, <2>4, <3>1
    <3>3. SrTyped'
      BY ONLY <1>1, <2>1, <2>4, <3>1, <3>2 DEF SrTyped
    <3>4. SrBudget'
      BY ONLY <2>1, <2>4, <3>2 DEF SrBudget
    <3> QED BY <3>3, <3>4 DEF SrHeld
  <2> QED BY ONLY <2>2, <2>3, <2>4
<1>4. CASE SrPush
  <2>1. /\ pendingSr' = Append(pendingSr, o)
        /\ srObserve' = [at |-> "idle", bytes |-> 0, left |-> 0]
        /\ UNCHANGED <<pendingBytes, srWorker>>
    BY <1>4 DEF SrPush, SrIdle
  <2>2. BytesOf(pendingSr') = q + o /\ pendingSr' \in Seq(Nat)
    BY <1>1, <2>1, BytesAre
  <2>3. pendingBytes' = 0 + w + BytesOf(pendingSr') /\ pendingBytes' <= SrBytes
    BY ONLY <1>1, <1>2, <2>1, <2>2
  <2>4. SrTyped'
    BY ONLY <1>1, <2>1, <2>2 DEF SrTyped
  <2>5. SrBudget'
    BY ONLY <2>1, <2>3 DEF SrBudget
  <2> QED BY <2>4, <2>5 DEF SrHeld
<1>5. CASE SrCopyFails
  <2>1. /\ pendingBytes' = pendingBytes - o
        /\ srObserve' = [at |-> "idle", bytes |-> 0, left |-> 0]
        /\ UNCHANGED <<pendingSr, srWorker>>
    BY <1>5 DEF SrCopyFails, SrRelease, SrIdle
  <2>2. pendingBytes' = 0 + w + q /\ pendingBytes' <= SrBytes /\ pendingBytes' \in Nat
    BY ONLY <1>1, <1>2, <2>1
  <2>3. SrTyped'
    BY ONLY <1>1, <2>1, <2>2 DEF SrTyped
  <2>4. SrBudget'
    BY ONLY <2>1, <2>2 DEF SrBudget
  <2> QED BY <2>3, <2>4 DEF SrHeld
<1>6. CASE SrTake
  <2>1. /\ srWorker.at = "idle" /\ pendingSr # <<>>
        /\ srWorker' = [at |-> "decode", bytes |-> Head(pendingSr), left |-> 0]
        /\ pendingSr' = Tail(pendingSr)
        /\ UNCHANGED <<srObserve, pendingBytes>>
    BY <1>6 DEF SrTake
  <2>2. /\ pendingSr' \in Seq(Nat) /\ Head(pendingSr) \in Nat
        /\ q = Head(pendingSr) + BytesOf(pendingSr')
    BY <1>1, <2>1, BytesAre
  <2>3. w = 0 /\ BytesOf(pendingSr') \in Nat
    BY <1>1, <2>1, <2>2, BytesAre
  <2>4. pendingBytes' = o + Head(pendingSr) + BytesOf(pendingSr')
    BY ONLY <1>1, <2>1, <2>2, <2>3
  <2>5. SrTyped'
    BY ONLY <1>1, <2>1, <2>2 DEF SrTyped
  <2>6. SrBudget'
    BY ONLY <1>1, <2>1, <2>4 DEF SrBudget
  <2> QED BY <2>5, <2>6 DEF SrHeld
<1>7. ASSUME UNCHANGED <<srObserve, pendingSr, pendingBytes>>, srWorker.at # "idle",
             \E at, left : srWorker' = [srWorker EXCEPT !.at = at, !.left = left],
             srWorker'.at # "idle"
      PROVE  SrHeld'
  <2>1. srWorker' = [at |-> srWorker'.at, bytes |-> w, left |-> srWorker'.left]
    BY <1>1, <1>7
  <2>2. SrTyped'
    BY ONLY <1>1, <1>7, <2>1 DEF SrTyped
  <2>3. SrBudget'
    BY ONLY <1>1, <1>7, <2>1 DEF SrBudget
  <2> QED BY <2>2, <2>3 DEF SrHeld
<1>8. CASE SrDecodeFails \/ SrDone
  <2>1. /\ UNCHANGED <<srObserve, pendingSr, pendingBytes>> /\ srWorker.at # "idle"
        /\ srWorker' = [srWorker EXCEPT !.at = "release"]
    BY <1>8 DEF SrDecodeFails, SrDone
  <2>2. srWorker' = [srWorker EXCEPT !.at = "release", !.left = srWorker.left]
    BY ONLY <1>1, <2>1
  <2>3. srWorker'.at # "idle"
    BY <1>1, <2>1
  <2> QED BY <1>7, <2>1, <2>2, <2>3
<1>9. CASE SrDecoded
  <2>1. /\ UNCHANGED <<srObserve, pendingSr, pendingBytes>> /\ srWorker.at # "idle"
        /\ \E n : srWorker' = [srWorker EXCEPT !.at = "ingest", !.left = n]
    BY <1>9 DEF SrDecoded
  <2>2. srWorker'.at # "idle"
    BY <1>1, <2>1
  <2> QED BY <1>7, <2>1, <2>2
<1>10. ASSUME NEW a \in Addresses, IngestBle(a) PROVE SrHeld'
  <2>1. /\ UNCHANGED <<srObserve, pendingSr, pendingBytes>> /\ srWorker.at # "idle"
        /\ srWorker' = [srWorker EXCEPT !.left = srWorker.left - 1]
    BY <1>10 DEF IngestBle
  <2>2. srWorker' = [srWorker EXCEPT !.at = srWorker.at, !.left = srWorker.left - 1]
    BY ONLY <1>1, <2>1
  <2>3. srWorker'.at # "idle"
    BY <1>1, <2>1
  <2> QED BY <1>7, <2>1, <2>2, <2>3
<1>11. CASE SrGiveBack
  <2>1. /\ pendingBytes' = pendingBytes - w
        /\ srWorker' = [at |-> "idle", bytes |-> 0, left |-> 0]
        /\ UNCHANGED <<srObserve, pendingSr>>
    BY <1>11 DEF SrGiveBack, SrIdle
  <2>2. pendingBytes' = o + 0 + q /\ pendingBytes' <= SrBytes /\ pendingBytes' \in Nat
    BY ONLY <1>1, <1>2, <2>1
  <2>3. SrTyped'
    BY ONLY <1>1, <2>1, <2>2 DEF SrTyped
  <2>4. SrBudget'
    BY ONLY <2>1, <2>2 DEF SrBudget
  <2> QED BY <2>3, <2>4 DEF SrHeld
<1>12. CASE SrClear
  BY <1>12 DEF SrClear, SrHeld, SrTyped, SrBudget
<1>13. CASE UNCHANGED srVars
  BY <1>13 DEF srVars, SrHeld, SrTyped, SrBudget
<1> QED BY <1>3, <1>4, <1>5, <1>6, <1>8, <1>9, <1>10, <1>11, <1>12, <1>13
    DEF SrNext, SrObserver, SrWorkerStep

\* Whatever is heard again, taken off the list to make room, or cleared, two addresses that
\* ShortRangeMonitor (src/shortrange/monitor.cpp: ingest_ble, unlink_successor,
\* link_rotating) shows as one probable device were never on air together; and the byte
\* budget (observe, run) is always what the copy, the queue and the worker hold.
THEOREM SrSoundHolds == SrSpec => []SrSound
<1>1. SrInit => SrInv
  BY NoneOk DEF SrInit, SrInv
<1>2. SrInv /\ SrHeld => SrSound
  BY GroupsOkSound DEF SrHeld, SrSound
<1> QED BY <1>1, <1>2, SrInvStep, SrHeldInit, SrHeldStep, PTL DEF SrSpec

-----------------------------------------------------------------------------
(* The registry of a band *)

\* Maps from keys.
Bests == UNION {[K -> RgDetections] : K \in SUBSET Nat}
RgRecords == [hits : Nat, cycles : SUBSET Nat, readings : Seq(Nat), shown : RgDetections,
              seen : Nat]
RgMaps == UNION {[K -> RgRecords] : K \in SUBSET Nat}

\* The detections that fall into a bucket, of the first n.
Into(ds, n, k) == {ds[i] : i \in {j \in 1..n : ds[j].key = k /\ ds[j].feature = 0}}

\* x is a confirmed one of S if there is one, and the strongest of its kind.
Strongest(x, S) ==
  /\ x \in S
  /\ x.confirmed <=> \E y \in S : y.confirmed
  /\ \A y \in S : y.confirmed = x.confirmed => y.power <= x.power

\* b has the best of each bucket, after n detections.
BestOf(b, ds, n) ==
  /\ b \in Bests
  /\ \A k \in Nat : k \in DOMAIN b <=> Into(ds, n, k) # {}
  /\ \A k \in DOMAIN b : Strongest(b[k], Into(ds, n, k))

BestStep(b, d) ==
  IF d.feature # 0 \/ (d.key \in DOMAIN b /\ ~Beats(d, b[d.key])) THEN b
  ELSE [k \in DOMAIN b \cup {d.key} |-> IF k = d.key THEN d ELSE b[k]]

\* What one more detection adds to a bucket.
LEMMA IntoMore ==
  ASSUME NEW ds \in Seq(RgDetections), NEW n \in 1..Len(ds), NEW k \in Nat
  PROVE  /\ ds[n].key = k /\ ds[n].feature = 0 =>
              Into(ds, n, k) = Into(ds, n - 1, k) \cup {ds[n]}
         /\ ~(ds[n].key = k /\ ds[n].feature = 0) => Into(ds, n, k) = Into(ds, n - 1, k)
<1>1. \A j \in 1..n : j = n \/ j \in 1..(n - 1)
  OBVIOUS
<1>2. \A j \in 1..(n - 1) : j \in 1..n /\ j # n
  OBVIOUS
<1>3. n \in 1..n
  OBVIOUS
<1> QED BY ONLY <1>1, <1>2, <1>3 DEF Into

\* The detections are what they are.
LEMMA DetectionTyped ==
  ASSUME NEW d \in RgDetections
  PROVE  d.key \in Nat /\ d.confirmed \in BOOLEAN /\ d.power \in Nat /\ d.feature \in Nat
BY RegistryAssumption DEF RegistryAssumption

\* A bucket has detections of its key.
LEMMA IntoTyped ==
  ASSUME NEW ds \in Seq(RgDetections), NEW n \in 0..Len(ds), NEW k \in Nat
  PROVE  Into(ds, n, k) \subseteq RgDetections
<1> SUFFICES ASSUME NEW i \in 1..n PROVE ds[i] \in RgDetections
  BY DEF Into
<1>1. i \in 1..Len(ds)
  OBVIOUS
<1> QED BY <1>1

\* A better one is the strongest of those before and itself; another changes nothing.
LEMMA StrongestMore ==
  ASSUME NEW S, S \subseteq RgDetections, NEW x \in S, Strongest(x, S), NEW d \in RgDetections
  PROVE  Strongest(IF Beats(d, x) THEN d ELSE x, S \cup {d})
<1>1. \A y \in S \cup {d} : y.confirmed \in BOOLEAN /\ y.power \in Nat
  BY DetectionTyped
<1>2. CASE Beats(d, x)
  <2>1. d.confirmed <=> \E y \in S \cup {d} : y.confirmed
    BY <1>1, <1>2 DEF Beats, Strongest
  <2>2. ASSUME NEW y \in S \cup {d}, y.confirmed = d.confirmed PROVE y.power <= d.power
    <3>1. CASE y = d
      BY <1>1, <3>1
    <3>2. CASE y \in S
      <4>1. x.confirmed = d.confirmed /\ d.power > x.power
        BY <1>1, <1>2, <2>2, <3>2 DEF Beats, Strongest
      <4>2. y.power <= x.power
        BY <2>2, <3>2, <4>1 DEF Strongest
      <4> QED BY <1>1, <3>2, <4>1, <4>2
    <3> QED BY <3>1, <3>2
  <2> QED BY <1>2, <2>1, <2>2 DEF Strongest
<1>3. CASE ~Beats(d, x)
  <2>1. x.confirmed <=> \E y \in S \cup {d} : y.confirmed
    BY <1>1, <1>3 DEF Beats, Strongest
  <2>2. ASSUME NEW y \in S \cup {d}, y.confirmed = x.confirmed PROVE y.power <= x.power
    <3>1. CASE y \in S
      BY <2>2, <3>1 DEF Strongest
    <3>2. CASE y = d
      BY <1>1, <1>3, <2>2, <3>2 DEF Beats
    <3> QED BY <3>1, <3>2
  <2> QED BY <1>3, <2>1, <2>2 DEF Strongest
<1> QED BY <1>2, <1>3

\* The map of the best stays one.
LEMMA BestStepTyped ==
  ASSUME NEW b \in Bests, NEW d \in RgDetections
  PROVE  /\ BestStep(b, d) \in Bests
         /\ d.feature # 0 => BestStep(b, d) = b
         /\ d.feature = 0 =>
              /\ DOMAIN BestStep(b, d) = DOMAIN b \cup {d.key}
              /\ \A k \in DOMAIN b : k # d.key => BestStep(b, d)[k] = b[k]
              /\ BestStep(b, d)[d.key] =
                   IF d.key \notin DOMAIN b \/ Beats(d, b[d.key]) THEN d ELSE b[d.key]
<1>1. PICK K \in SUBSET Nat : b \in [K -> RgDetections]
  BY DEF Bests
<1>2. d.key \in Nat
  BY DetectionTyped
<1> DEFINE c == [k \in K \cup {d.key} |-> IF k = d.key THEN d ELSE b[k]]
<1>3. c \in [K \cup {d.key} -> RgDetections] /\ K \cup {d.key} \in SUBSET Nat
  BY <1>1, <1>2
<1>4. c \in Bests
  BY ONLY <1>3 DEF Bests
<1>5. DOMAIN b = K
  BY <1>1
<1>6. CASE d.feature # 0 \/ (d.key \in DOMAIN b /\ ~Beats(d, b[d.key]))
  <2>1. BestStep(b, d) = b
    BY <1>6 DEF BestStep
  <2> QED BY <1>6, <2>1
<1>7. CASE ~(d.feature # 0 \/ (d.key \in DOMAIN b /\ ~Beats(d, b[d.key])))
  <2>1. BestStep(b, d) = c
    BY <1>5, <1>7 DEF BestStep
  <2>2. c[d.key] = d /\ DOMAIN c = K \cup {d.key}
    OBVIOUS
  <2>3. \A k \in K : k # d.key => c[k] = b[k]
    OBVIOUS
  <2> HIDE DEF c
  <2> QED BY <1>4, <1>5, <1>7, <2>1, <2>2, <2>3
<1> QED BY <1>6, <1>7

\* One more detection: still the best of each bucket.
LEMMA BestGoesOn ==
  ASSUME NEW ds \in Seq(RgDetections), NEW n \in 1..Len(ds), NEW b, BestOf(b, ds, n - 1)
  PROVE  BestOf(BestStep(b, ds[n]), ds, n)
<1> DEFINE d == ds[n]
           c == BestStep(b, d)
<1>1. d \in RgDetections /\ d.key \in Nat /\ b \in Bests
  BY DetectionTyped DEF BestOf
<1>2. /\ c \in Bests
      /\ d.feature # 0 => c = b
      /\ d.feature = 0 =>
           /\ DOMAIN c = DOMAIN b \cup {d.key}
           /\ \A k \in DOMAIN b : k # d.key => c[k] = b[k]
           /\ c[d.key] = IF d.key \notin DOMAIN b \/ Beats(d, b[d.key]) THEN d ELSE b[d.key]
  BY <1>1, BestStepTyped
<1>3. DOMAIN b \subseteq Nat
  BY <1>1 DEF Bests
<1>4. \A k \in Nat :
        /\ d.key = k /\ d.feature = 0 => Into(ds, n, k) = Into(ds, n - 1, k) \cup {d}
        /\ ~(d.key = k /\ d.feature = 0) => Into(ds, n, k) = Into(ds, n - 1, k)
  BY IntoMore
<1>5. n - 1 \in 0..Len(ds)
  OBVIOUS
<1>6. \A k \in Nat : Into(ds, n - 1, k) \subseteq RgDetections
  BY <1>5, IntoTyped
<1>7. /\ \A k \in Nat : k \in DOMAIN b <=> Into(ds, n - 1, k) # {}
      /\ \A k \in DOMAIN b : Strongest(b[k], Into(ds, n - 1, k))
  BY DEF BestOf
<1> HIDE DEF c, d
<1>8. CASE d.feature # 0
  <2>1. \A k \in Nat : Into(ds, n, k) = Into(ds, n - 1, k)
    BY <1>4, <1>8
  <2>2. c = b
    BY <1>2, <1>8
  <2> QED BY <1>1, <1>3, <1>7, <2>1, <2>2 DEF BestOf, c, d
<1>9. CASE d.feature = 0
  <2>1. \A k \in Nat : k # d.key => Into(ds, n, k) = Into(ds, n - 1, k)
    BY <1>4
  <2>2. Into(ds, n, d.key) = Into(ds, n - 1, d.key) \cup {d}
    BY <1>1, <1>4, <1>9
  <2>3. \A k \in Nat : k \in DOMAIN c <=> Into(ds, n, k) # {}
    BY <1>1, <1>2, <1>7, <1>9, <2>1, <2>2
  <2>4. ASSUME NEW k \in DOMAIN c PROVE Strongest(c[k], Into(ds, n, k))
    <3>1. CASE k # d.key
      <4>1. k \in DOMAIN b /\ c[k] = b[k] /\ k \in Nat
        BY <1>2, <1>3, <1>9, <3>1
      <4> QED BY <1>7, <2>1, <3>1, <4>1
    <3>2. CASE k = d.key /\ k \notin DOMAIN b
      <4>1. c[k] = d
        BY <1>2, <1>9, <3>2
      <4>2. Into(ds, n, k) = {d}
        BY <1>1, <1>7, <2>2, <3>2
      <4>3. d.power \in Nat /\ d.confirmed \in BOOLEAN
        BY <1>1, DetectionTyped
      <4> QED BY <4>1, <4>2, <4>3 DEF Strongest
    <3>3. CASE k = d.key /\ k \in DOMAIN b
      <4>1. c[k] = IF Beats(d, b[k]) THEN d ELSE b[k]
        BY <1>2, <1>9, <3>3
      <4>2. Strongest(b[k], Into(ds, n - 1, k)) /\ k \in Nat
        BY <1>3, <1>7, <3>3
      <4>3. b[k] \in Into(ds, n - 1, k)
        BY <4>2 DEF Strongest
      <4>4. Strongest(IF Beats(d, b[k]) THEN d ELSE b[k], Into(ds, n - 1, k) \cup {d})
        BY <1>1, <1>6, <4>2, <4>3, StrongestMore
      <4> QED BY <2>2, <3>3, <4>1, <4>4
    <3> QED BY <3>1, <3>2, <3>3
  <2> QED BY <1>2, <2>3, <2>4 DEF BestOf, c, d
<1> QED BY <1>8, <1>9

\* The best of each bucket after each detection.
Bettered(ds) == CHOOSE best :
  best = [n \in 0..Len(ds) |->
            IF n = 0 THEN <<>>
            ELSE IF ds[n].feature # 0
                    \/ (ds[n].key \in DOMAIN best[n - 1] /\ ~Beats(ds[n], best[n - 1][ds[n].key]))
                 THEN best[n - 1]
            ELSE [k \in DOMAIN best[n - 1] \cup {ds[n].key} |->
                    IF k = ds[n].key THEN ds[n] ELSE best[n - 1][k]]]

\* They go on one by one.
LEMMA BetteredIs ==
  ASSUME NEW ds \in Seq(RgDetections)
  PROVE  /\ BestPerBucket(ds) = Bettered(ds)[Len(ds)]
         /\ Bettered(ds)[0] = <<>>
         /\ \A n \in 1..Len(ds) : Bettered(ds)[n] = BestStep(Bettered(ds)[n - 1], ds[n])
<1> DEFINE N == Len(ds)
           step == [p \in (1..N) \X Bests |-> BestStep(p[2], ds[p[1]])]
           g == Bettered(ds)
<1>1. N \in Nat /\ \A n \in 1..N : ds[n] \in RgDetections
  OBVIOUS
<1>2. <<>> \in Bests
  <2>1. <<>> \in [{} -> RgDetections] /\ {} \in SUBSET Nat
    OBVIOUS
  <2> QED BY ONLY <2>1 DEF Bests
<1>3. \A n \in 1..N, b \in Bests : BestStep(b, ds[n]) \in Bests
  BY <1>1, BestStepTyped
<1>5. \A n \in 1..N, b \in Bests : step[<<n, b>>] = BestStep(b, ds[n])
  OBVIOUS
<1>6. BestPerBucket(ds) = g[N]
  BY DEF BestPerBucket, Bettered
<1> HIDE DEF N, step
<1>7. PICK f : Iterates(f, <<>>, step, N)
  BY <1>1, IteratesExists
<1>8. /\ f \in [0..N -> Bests] /\ f[0] = <<>>
      /\ \A n \in 1..N : f[n] = step[<<n, f[n - 1]>>]
  <2>1. StepsWithin(step, N, Bests)
    BY ONLY <1>3, <1>5 DEF StepsWithin
  <2>2. N \in Nat
    BY <1>1
  <2> DEFINE none == <<>>
  <2>3. none \in Bests /\ Iterates(f, none, step, N)
    BY <1>2, <1>7
  <2> HIDE DEF none
  <2>4. /\ f \in [0..N -> Bests] /\ f[0] = none
        /\ \A n \in 1..N : f[n] = step[<<n, f[n - 1]>>]
    BY ONLY <2>1, <2>2, <2>3, IteratesTyped
  <2> QED BY ONLY <2>4 DEF none
<1>9. \A n \in 1..N : f[n] = BestStep(f[n - 1], ds[n])
  <2> SUFFICES ASSUME NEW n \in 1..N PROVE f[n] = BestStep(f[n - 1], ds[n])
    OBVIOUS
  <2>1. n - 1 \in 0..N
    BY <1>1
  <2>2. f[n - 1] \in Bests
    BY <1>8, <2>1
  <2> QED BY <1>5, <1>8, <2>2
<1>10. f = [n \in 0..N |-> IF n = 0 THEN <<>> ELSE BestStep(f[n - 1], ds[n])]
  <2>1. \A n \in 0..N : n # 0 => n \in 1..N
    BY <1>1
  <2>2. f = [n \in 0..N |-> f[n]]
    BY <1>8
  <2>3. \A n \in 0..N : f[n] = IF n = 0 THEN <<>> ELSE BestStep(f[n - 1], ds[n])
    BY ONLY <1>8, <1>9, <2>1
  <2> QED BY ONLY <2>2, <2>3
<1>11. g = [n \in 0..N |-> IF n = 0 THEN <<>> ELSE BestStep(g[n - 1], ds[n])]
  BY <1>10 DEF Bettered, BestStep, N
<1> HIDE DEF g
<1>12. g[0] = <<>> /\ \A n \in 1..N : g[n] = BestStep(g[n - 1], ds[n])
  <2>1. 0 \in 0..N /\ \A n \in 1..N : n \in 0..N /\ n # 0
    BY <1>1
  <2> QED BY ONLY <1>11, <2>1
<1> QED BY <1>6, <1>12 DEF g, N

\* best_per_bucket: what is found for each bucket is its best.
LEMMA BestIsBest ==
  ASSUME NEW ds \in Seq(RgDetections)
  PROVE  BestOf(BestPerBucket(ds), ds, Len(ds))
<1> DEFINE N == Len(ds)
           g == Bettered(ds)
           S == {n \in 0..N : BestOf(g[n], ds, n)}
<1>1. /\ N \in Nat /\ BestPerBucket(ds) = g[N] /\ g[0] = <<>>
      /\ \A n \in 1..N : g[n] = BestStep(g[n - 1], ds[n])
  BY BetteredIs
<1>2. BestOf(<<>>, ds, 0)
  <2>1. <<>> \in [{} -> RgDetections] /\ {} \in SUBSET Nat
    OBVIOUS
  <2>2. <<>> \in Bests
    BY ONLY <2>1 DEF Bests
  <2>3. \A k \in Nat : Into(ds, 0, k) = {}
    BY DEF Into
  <2> QED BY <2>2, <2>3 DEF BestOf
<1>3. 0 \in S
  BY <1>1, <1>2
<1>4. \A n \in 1..N : n - 1 \in S => n \in S
  <2> SUFFICES ASSUME NEW n \in 1..N, n - 1 \in S PROVE n \in S
    OBVIOUS
  <2>1. BestOf(BestStep(g[n - 1], ds[n]), ds, n)
    BY BestGoesOn
  <2> QED BY <1>1, <2>1
<1> HIDE DEF S
<1>5. N \in S
  <2>1. \A n \in 0..N : n \in S
    BY ONLY <1>1, <1>3, <1>4, UpTo
  <2> QED BY <1>1, <2>1
<1> QED BY <1>1, <1>5 DEF S
-----------------------------------------------------------------------------
(* The devices. *)

\* A device after n cycles: without readings it counts the cycles it was seen in.
DeviceOk(d, n) ==
  /\ d \in RgRecords
  /\ d.cycles \subseteq 1..n /\ d.seen <= n
  /\ d.readings = <<>> => d.hits = Cardinality(d.cycles)

\* A device in the middle of a cycle: seen in it, it has readings or shows its best.
ShowsBest(devices, k, best) ==
  devices[k].readings = <<>> /\ devices[k].seen = rgCycle + 1 =>
    k \in DOMAIN best /\ devices[k].shown = best[k]

\* The devices in the middle of a cycle.
MidCycle(devices, best) ==
  /\ devices \in RgMaps
  /\ \A k \in DOMAIN devices :
       DeviceOk(devices[k], rgCycle + 1) /\ ShowsBest(devices, k, best)

\* The devices between cycles.
RgInv ==
  /\ rgCycle \in Nat /\ rgDevices \in RgMaps
  /\ \A k \in DOMAIN rgDevices : DeviceOk(rgDevices[k], rgCycle)
  /\ RgBestOfBucket

\* The least of some numbers is one of them.
LEMMA LeastIsOne ==
  ASSUME NEW S, S \subseteq Nat, S # {}
  PROVE  Min(S) \in S
<1> DEFINE R == OpToRel(<, Nat)
<1>1. IsWellFoundedOn(R, Nat)
  BY NatLessThanWellFounded
<1>2. R = {p \in Nat \X Nat : p[1] < p[2]}
  BY DEF OpToRel
<1> HIDE DEF R
<1>3. PICK m \in S : \A k \in S : <<k, m>> \notin R
  BY ONLY <1>1, WFMin, S \subseteq Nat, S # {}
<1>4. ASSUME NEW k \in S PROVE m =< k
  <2>1. k \in Nat /\ m \in Nat /\ <<k, m>> \notin R
    BY <1>3
  <2> QED BY <1>2, <2>1
<1>5. \E x \in S : \A y \in S : x =< y
  BY <1>3, <1>4
<1> QED BY ONLY <1>5 DEF Min

\* A detection goes to a key.
LEMMA KeyIsNat ==
  ASSUME NEW devices \in RgMaps, NEW d \in RgDetections
  PROVE  KeyFor(devices, d) \in Nat
<1> DEFINE found == {k \in DOMAIN devices : Matches(devices[k], d.feature)}
<1>1. found \subseteq Nat
  BY DEF RgMaps
<1>2. KeyFor(devices, d) = IF found = {} THEN d.key ELSE Min(found)
  BY DEF KeyFor
<1>3. d.key \in Nat
  BY DetectionTyped
<1> HIDE DEF found
<1>4. CASE found = {}
  BY ONLY <1>2, <1>3, <1>4
<1>5. CASE found # {}
  <2>1. Min(found) \in found
    BY ONLY <1>1, <1>5, LeastIsOne
  <2> QED BY <1>1, <1>2, <1>5, <2>1
<1> QED BY <1>4, <1>5

\* A sequence with an element is not empty.
LEMMA LongIsSome ==
  ASSUME NEW s \in Seq(Nat), Len(s) >= 1
  PROVE  s # <<>>
OBVIOUS

\* A reading is kept: there is one then.
LEMMA PushedSome ==
  ASSUME NEW readings \in Seq(Nat), NEW feature \in Nat
  PROVE  /\ Pushed(readings, feature) \in Seq(Nat)
         /\ feature = 0 => Pushed(readings, feature) = readings
         /\ feature # 0 => Pushed(readings, feature) # <<>>
<1> DEFINE s == Append(readings, feature)
<1>1. s \in Seq(Nat) /\ Len(s) >= 1 /\ RgHistory \in Nat /\ RgHistory >= 1
  BY RegistryAssumption DEF RegistryAssumption
<1>2. Pushed(readings, feature) =
        IF feature = 0 THEN readings ELSE IF Len(s) > RgHistory THEN Tail(s) ELSE s
  BY DEF Pushed
<1> HIDE DEF s
<1>3. s # <<>>
  BY <1>1
<1>4. CASE Len(s) > RgHistory
  <2>1. Tail(s) \in Seq(Nat) /\ Len(Tail(s)) >= 1
    BY <1>1, <1>4
  <2>2. Tail(s) # <<>>
    BY <2>1, LongIsSome
  <2> QED BY ONLY <1>2, <1>4, <2>1, <2>2, readings \in Seq(Nat)
<1>5. CASE ~(Len(s) > RgHistory)
  BY ONLY <1>1, <1>2, <1>3, <1>5, readings \in Seq(Nat)
<1> QED BY <1>4, <1>5

\* What a device of a map is.
LEMMA DeviceTyped ==
  ASSUME NEW devices \in RgMaps
  PROVE  /\ DOMAIN devices \subseteq Nat
         /\ \A k \in DOMAIN devices : devices[k] \in RgRecords
BY DEF RgMaps

\* update_one makes a device.
LEMMA UpdatedIs ==
  ASSUME NEW devices \in RgMaps, NEW k, NEW d \in RgDetections, rgCycle \in Nat,
         k \in DOMAIN devices => DeviceOk(devices[k], rgCycle + 1)
  PROVE  /\ Updated(devices, k, d) \in RgRecords
         /\ Updated(devices, k, d).cycles \subseteq 1..(rgCycle + 1)
         /\ Updated(devices, k, d).seen = rgCycle + 1
         /\ Updated(devices, k, d).shown = d
         /\ d.feature # 0 => Updated(devices, k, d).readings # <<>>
<1> DEFINE old == IF k \in DOMAIN devices THEN devices[k] ELSE Unseen
<1>1. /\ old.hits \in Nat /\ old.cycles \in SUBSET (1..(rgCycle + 1))
      /\ old.readings \in Seq(Nat)
  <2>1. CASE k \in DOMAIN devices
    <3>1. old = devices[k] /\ devices[k] \in RgRecords
      BY <2>1, DeviceTyped
    <3>2. devices[k].cycles \subseteq 1..(rgCycle + 1)
      BY <2>1 DEF DeviceOk
    <3> QED BY ONLY <3>1, <3>2 DEF RgRecords
  <2>2. CASE k \notin DOMAIN devices
    <3>1. old = Unseen
      BY <2>2
    <3>2. Unseen.hits = 0 /\ Unseen.cycles = {} /\ Unseen.readings = <<>>
      BY DEF Unseen
    <3>3. <<>> \in Seq(Nat) /\ 0 \in Nat /\ {} \in SUBSET (1..(rgCycle + 1))
      OBVIOUS
    <3> QED BY ONLY <3>1, <3>2, <3>3
  <2> QED BY <2>1, <2>2
<1>2. Updated(devices, k, d) =
        [hits |-> old.hits + 1, cycles |-> old.cycles \cup {rgCycle + 1},
         readings |-> Pushed(old.readings, d.feature), shown |-> d, seen |-> rgCycle + 1]
  BY DEF Updated
<1> HIDE DEF old
<1>3. d.feature \in Nat
  BY DetectionTyped
<1>4. /\ Pushed(old.readings, d.feature) \in Seq(Nat)
      /\ d.feature # 0 => Pushed(old.readings, d.feature) # <<>>
  BY <1>1, <1>3, PushedSome
<1>5. old.cycles \cup {rgCycle + 1} \subseteq 1..(rgCycle + 1)
  BY <1>1
<1>6. old.cycles \cup {rgCycle + 1} \in SUBSET Nat /\ old.hits + 1 \in Nat
  BY <1>1
<1>7. rgCycle + 1 \in Nat
  OBVIOUS
<1> QED BY ONLY <1>2, <1>4, <1>5, <1>6, <1>7, d \in RgDetections DEF RgRecords
\* A map of devices with one of them updated.
LEMMA WithOne ==
  ASSUME NEW devices \in RgMaps, NEW k \in Nat, NEW r \in RgRecords
  PROVE  [j \in DOMAIN devices \cup {k} |-> IF j = k THEN r ELSE devices[j]] \in RgMaps
<1> DEFINE K == DOMAIN devices \cup {k}
           g == [j \in K |-> IF j = k THEN r ELSE devices[j]]
<1>1. K \in SUBSET Nat /\ \A j \in DOMAIN devices : devices[j] \in RgRecords
  BY DeviceTyped
<1>2. \A j \in K : (IF j = k THEN r ELSE devices[j]) \in RgRecords
  BY <1>1
<1> HIDE DEF K
<1>3. g \in [K -> RgRecords]
  BY ONLY <1>2
<1> HIDE DEF g
<1>4. g \in RgMaps
  BY ONLY <1>1, <1>3 DEF RgMaps
<1> QED BY <1>4 DEF g, K

\* update_one leaves a map of devices.
LEMMA UpdateOneTyped ==
  ASSUME NEW devices \in RgMaps, NEW k \in Nat, NEW d \in RgDetections, rgCycle \in Nat,
         \A j \in DOMAIN devices : DeviceOk(devices[j], rgCycle + 1)
  PROVE  UpdateOne(devices, k, d) \in RgMaps
<1>1. Updated(devices, k, d) \in RgRecords
  BY UpdatedIs
<1> QED BY <1>1, WithOne DEF UpdateOne

\* A fingerprinted detection leaves the devices of a cycle as they should be.
LEMMA ByOne ==
  ASSUME NEW devices, NEW best, MidCycle(devices, best), rgCycle \in Nat, NEW k \in Nat,
         NEW d \in RgDetections, d.feature # 0
  PROVE  MidCycle(UpdateOne(devices, k, d), best)
<1> DEFINE u == Updated(devices, k, d)
           after == UpdateOne(devices, k, d)
<1>1. /\ devices \in RgMaps
      /\ \A j \in DOMAIN devices :
           DeviceOk(devices[j], rgCycle + 1) /\ ShowsBest(devices, j, best)
  BY DEF MidCycle
<1>2. after \in RgMaps
  BY <1>1, UpdateOneTyped
<1>3. /\ u \in RgRecords /\ u.cycles \subseteq 1..(rgCycle + 1)
      /\ u.seen = rgCycle + 1 /\ u.readings # <<>>
  BY <1>1, UpdatedIs
<1>4. after = [j \in DOMAIN devices \cup {k} |-> IF j = k THEN u ELSE devices[j]]
  BY DEF UpdateOne
<1> HIDE DEF u, after
<1>5. ASSUME NEW j \in DOMAIN after
      PROVE  DeviceOk(after[j], rgCycle + 1) /\ ShowsBest(after, j, best)
  <2>1. CASE j = k
    <3>1. after[j] = u
      BY <1>4, <2>1
    <3> QED BY <1>3, <3>1 DEF DeviceOk, ShowsBest
  <2>2. CASE j # k
    <3>1. j \in DOMAIN devices /\ after[j] = devices[j]
      BY <1>4, <2>2
    <3> QED BY <1>1, <3>1 DEF ShowsBest
  <2> QED BY <2>1, <2>2
<1>6. MidCycle(after, best)
  BY ONLY <1>2, <1>5 DEF MidCycle
<1> QED BY <1>6 DEF after

\* A device without readings was seen in one more cycle, by a detector of energy.
LEMMA SeenOnceMore ==
  ASSUME NEW devices \in RgMaps, NEW k, NEW d \in RgDetections, rgCycle \in Nat,
         k \in DOMAIN devices => DeviceOk(devices[k], rgCycle), d.feature = 0
  PROVE  DeviceOk(Updated(devices, k, d), rgCycle + 1)
<1> DEFINE old == IF k \in DOMAIN devices THEN devices[k] ELSE Unseen
           u == Updated(devices, k, d)
<1>1. k \in DOMAIN devices => DeviceOk(devices[k], rgCycle + 1)
  BY DEF DeviceOk, RgRecords
<1>2. /\ u \in RgRecords /\ u.cycles \subseteq 1..(rgCycle + 1) /\ u.seen = rgCycle + 1
  BY <1>1, UpdatedIs
<1>3. /\ old.hits \in Nat /\ old.cycles \subseteq 1..rgCycle /\ old.readings \in Seq(Nat)
      /\ old.readings = <<>> => old.hits = Cardinality(old.cycles)
  <2>1. CASE k \in DOMAIN devices
    <3>1. old = devices[k] /\ devices[k] \in RgRecords
      BY <2>1, DeviceTyped
    <3>2. /\ devices[k].cycles \subseteq 1..rgCycle
          /\ devices[k].readings = <<>> => devices[k].hits = Cardinality(devices[k].cycles)
      BY <2>1 DEF DeviceOk
    <3> QED BY ONLY <3>1, <3>2 DEF RgRecords
  <2>2. CASE k \notin DOMAIN devices
    <3>1. old = Unseen
      BY <2>2
    <3>2. Unseen.hits = 0 /\ Unseen.cycles = {} /\ Unseen.readings = <<>>
      BY DEF Unseen
    <3>3. <<>> \in Seq(Nat) /\ 0 \in Nat /\ {} \subseteq 1..rgCycle
      OBVIOUS
    <3>4. Cardinality({}) = 0
      BY FS_EmptySet
    <3> QED BY ONLY <3>1, <3>2, <3>3, <3>4
  <2> QED BY <2>1, <2>2
<1>4. /\ u.hits = old.hits + 1 /\ u.cycles = old.cycles \cup {rgCycle + 1}
      /\ u.readings = Pushed(old.readings, d.feature)
  BY DEF Updated
<1> HIDE DEF old, u
<1>5. u.readings = old.readings
  <2>1. d.feature \in Nat
    BY DetectionTyped
  <2> QED BY ONLY <1>3, <1>4, <2>1, PushedSome, d.feature = 0
<1>6. ASSUME u.readings = <<>> PROVE u.hits = Cardinality(u.cycles)
  <2>1. IsFiniteSet(old.cycles) /\ rgCycle + 1 \notin old.cycles
    <3>1. IsFiniteSet(1..rgCycle)
      BY FS_Interval
    <3>2. IsFiniteSet(old.cycles)
      BY <1>3, <3>1, FS_Subset
    <3> QED BY <1>3, <3>2
  <2>2. Cardinality(old.cycles \cup {rgCycle + 1}) = Cardinality(old.cycles) + 1
    BY ONLY <2>1, FS_AddElement
  <2> QED BY ONLY <1>3, <1>4, <1>5, <1>6, <2>2
<1>7. u.seen <= rgCycle + 1
  BY <1>2
<1>8. DeviceOk(u, rgCycle + 1)
  BY ONLY <1>2, <1>6, <1>7 DEF DeviceOk
<1> QED BY <1>8 DEF u

\* Between cycles, the best of each bucket leave the devices as they should be.
LEMMA InBucketsMid ==
  ASSUME NEW devices \in RgMaps, NEW best \in Bests, rgCycle \in Nat,
         \A k \in DOMAIN devices : DeviceOk(devices[k], rgCycle),
         \A k \in DOMAIN best : best[k].feature = 0
  PROVE  MidCycle(InBuckets(devices, best), best)
<1> DEFINE K == DOMAIN devices \cup DOMAIN best
           after == InBuckets(devices, best)
<1>1. /\ DOMAIN devices \subseteq Nat /\ DOMAIN best \subseteq Nat
      /\ \A k \in DOMAIN best : best[k] \in RgDetections
  <2>1. DOMAIN devices \subseteq Nat
    BY DeviceTyped
  <2>2. PICK B \in SUBSET Nat : best \in [B -> RgDetections]
    BY DEF Bests
  <2> QED BY ONLY <2>1, <2>2
<1>2. after = [k \in K |-> IF k \in DOMAIN best THEN Updated(devices, k, best[k])
                           ELSE devices[k]]
  BY DEF InBuckets
<1>3. K \in SUBSET Nat /\ \A k \in K : k \in DOMAIN best \/ k \in DOMAIN devices
  BY <1>1
<1> HIDE DEF K, after
<1>4. DOMAIN after = K
  BY <1>2
<1>5. ASSUME NEW k \in K PROVE DeviceOk(after[k], rgCycle + 1) /\ ShowsBest(after, k, best)
  <2>1. CASE k \in DOMAIN best
    <3>1. after[k] = Updated(devices, k, best[k])
      BY <1>2, <2>1
    <3>2. best[k] \in RgDetections /\ best[k].feature = 0
      BY <1>1, <2>1
    <3>3. DeviceOk(Updated(devices, k, best[k]), rgCycle + 1)
      BY <3>2, SeenOnceMore
    <3>4. k \in DOMAIN devices => DeviceOk(devices[k], rgCycle + 1)
      BY DEF DeviceOk, RgRecords
    <3>5. Updated(devices, k, best[k]).shown = best[k]
      BY <3>2, <3>4, UpdatedIs
    <3> QED BY ONLY <2>1, <3>1, <3>3, <3>5 DEF ShowsBest
  <2>2. CASE k \notin DOMAIN best
    <3>1. k \in DOMAIN devices /\ after[k] = devices[k]
      BY <1>2, <1>3, <2>2
    <3>2. DeviceOk(devices[k], rgCycle)
      BY <3>1
    <3>3. devices[k].seen \in Nat /\ devices[k].seen <= rgCycle
      BY <3>2 DEF DeviceOk, RgRecords
    <3>4. DeviceOk(devices[k], rgCycle + 1)
      BY <3>2, <3>3 DEF DeviceOk
    <3>5. devices[k].seen # rgCycle + 1
      BY <3>3
    <3> QED BY ONLY <3>1, <3>4, <3>5 DEF ShowsBest
  <2> QED BY <2>1, <2>2
<1>6. after \in RgMaps
  <2>1. \A k \in K : after[k] \in RgRecords
    BY <1>5 DEF DeviceOk
  <2>2. after = [k \in K |-> after[k]]
    BY <1>2
  <2>3. after \in [K -> RgRecords]
    BY ONLY <2>1, <2>2
  <2> QED BY ONLY <1>3, <2>3 DEF RgMaps
<1>7. MidCycle(after, best)
  BY ONLY <1>4, <1>5, <1>6 DEF MidCycle
<1> QED BY <1>7 DEF after
\* One detection of a cycle, on the devices.
FingerStep(devices, d) ==
  IF d.feature = 0 THEN devices ELSE UpdateOne(devices, KeyFor(devices, d), d)

\* The devices after each detection.
Fingered(devices, ds) == CHOOSE after :
  after = [n \in 0..Len(ds) |->
             IF n = 0 THEN devices
             ELSE IF ds[n].feature = 0 THEN after[n - 1]
             ELSE UpdateOne(after[n - 1], KeyFor(after[n - 1], ds[n]), ds[n])]

\* A map of devices, all of them as they should be in the middle of a cycle.
MidMaps(best) == {devices \in RgMaps : MidCycle(devices, best)}

\* A detection leads from such a map to such a map.
LEMMA FingerStepMid ==
  ASSUME NEW best, NEW devices \in MidMaps(best), NEW d \in RgDetections, rgCycle \in Nat
  PROVE  FingerStep(devices, d) \in MidMaps(best)
<1>1. devices \in RgMaps /\ MidCycle(devices, best)
  BY DEF MidMaps
<1>2. CASE d.feature = 0
  BY <1>2 DEF FingerStep
<1>3. CASE d.feature # 0
  <2>1. KeyFor(devices, d) \in Nat
    BY <1>1, KeyIsNat
  <2>2. MidCycle(UpdateOne(devices, KeyFor(devices, d), d), best)
    BY <1>1, <1>3, <2>1, ByOne
  <2>3. UpdateOne(devices, KeyFor(devices, d), d) \in RgMaps
    BY <2>2 DEF MidCycle
  <2> QED BY <1>3, <2>2, <2>3 DEF FingerStep, MidMaps
<1> QED BY <1>2, <1>3

\* All of them leave the devices as they should be.
LEMMA ByFingerprintMid ==
  ASSUME NEW best, NEW devices, MidCycle(devices, best), NEW ds \in Seq(RgDetections),
         rgCycle \in Nat
  PROVE  MidCycle(ByFingerprint(devices, ds), best)
<1> DEFINE N == Len(ds)
           M == MidMaps(best)
           step == [p \in (1..N) \X M |-> FingerStep(p[2], ds[p[1]])]
           g == Fingered(devices, ds)
<1>1. N \in Nat /\ \A n \in 1..N : ds[n] \in RgDetections
  OBVIOUS
<1>2. devices \in M
  BY DEF MidMaps, MidCycle
<1>3. \A n \in 1..N, b \in M : FingerStep(b, ds[n]) \in M
  BY <1>1, FingerStepMid
<1>4. \A n \in 1..N, b \in M : step[<<n, b>>] = FingerStep(b, ds[n])
  OBVIOUS
<1>5. ByFingerprint(devices, ds) = g[N]
  BY DEF ByFingerprint, Fingered
<1> HIDE DEF N, M, step
<1>6. PICK f : Iterates(f, devices, step, N)
  BY <1>1, IteratesExists
<1>7. /\ f \in [0..N -> M] /\ f[0] = devices
      /\ \A n \in 1..N : f[n] = step[<<n, f[n - 1]>>]
  <2>1. StepsWithin(step, N, M)
    BY ONLY <1>3, <1>4 DEF StepsWithin
  <2>2. N \in Nat
    BY <1>1
  <2> QED BY ONLY <1>2, <1>6, <2>1, <2>2, IteratesTyped
<1>8. \A n \in 1..N : f[n] = FingerStep(f[n - 1], ds[n])
  <2> SUFFICES ASSUME NEW n \in 1..N PROVE f[n] = FingerStep(f[n - 1], ds[n])
    OBVIOUS
  <2>1. n - 1 \in 0..N
    BY <1>1
  <2>2. f[n - 1] \in M
    BY <1>7, <2>1
  <2> QED BY <1>4, <1>7, <2>2
<1>9. f = [n \in 0..N |-> IF n = 0 THEN devices ELSE FingerStep(f[n - 1], ds[n])]
  <2>1. \A n \in 0..N : n # 0 => n \in 1..N
    BY <1>1
  <2>2. f = [n \in 0..N |-> f[n]]
    BY <1>7
  <2>3. \A n \in 0..N : f[n] = IF n = 0 THEN devices ELSE FingerStep(f[n - 1], ds[n])
    BY ONLY <1>7, <1>8, <2>1
  <2> QED BY ONLY <2>2, <2>3
<1>10. g = [n \in 0..N |-> IF n = 0 THEN devices ELSE FingerStep(g[n - 1], ds[n])]
  BY <1>9 DEF Fingered, FingerStep, N
<1> HIDE DEF g
<1> DEFINE T == {n \in 0..N : g[n] \in M}
<1>11. \A n \in 0..N : g[n] = IF n = 0 THEN devices ELSE FingerStep(g[n - 1], ds[n])
  BY ONLY <1>10
<1>12. 0 \in 0..N /\ \A n \in 1..N : n \in 0..N /\ n # 0
  BY <1>1
<1>13. 0 \in T
  BY ONLY <1>2, <1>11, <1>12
<1>14. \A n \in 1..N : n - 1 \in T => n \in T
  BY ONLY <1>3, <1>11, <1>12
<1> HIDE DEF T
<1>15. N \in T
  <2>1. N \in Nat
    BY <1>1
  <2>2. \A n \in 0..N : n \in T
    BY ONLY <1>13, <1>14, <2>1, UpTo
  <2> QED BY <2>1, <2>2
<1>16. g[N] \in M
  BY <1>15 DEF T
<1> QED BY ONLY <1>5, <1>16 DEF M, MidMaps

-----------------------------------------------------------------------------
(* The cycles. *)

\* A cycle: the registry is as it should be after it.
LEMMA CycleKeepsInv ==
  ASSUME RgInv, RgUpdateCycle
  PROVE  RgInv'
<1>1. /\ rgCycle \in Nat /\ rgDevices \in RgMaps
      /\ \A k \in DOMAIN rgDevices : DeviceOk(rgDevices[k], rgCycle)
  BY DEF RgInv
<1>2. PICK ds \in SeqOf(RgDetections, RgMaxDetections) :
        /\ rgDevices' = ByFingerprint(InBuckets(rgDevices, BestPerBucket(ds)), ds)
        /\ rgLast' = ds
  BY DEF RgUpdateCycle
<1>3. ds \in Seq(RgDetections)
  BY <1>2 DEF SeqOf
<1> DEFINE best == BestPerBucket(ds)
<1>4. BestOf(best, ds, Len(ds))
  BY <1>3, BestIsBest
<1>5. rgDevices' = ByFingerprint(InBuckets(rgDevices, best), ds)
  BY <1>2
<1> HIDE DEF best
<1>6. /\ best \in Bests
      /\ \A k \in DOMAIN best : k \in Nat /\ Strongest(best[k], Into(ds, Len(ds), k))
  <2>1. best \in Bests /\ \A k \in DOMAIN best : Strongest(best[k], Into(ds, Len(ds), k))
    BY <1>4 DEF BestOf
  <2>2. DOMAIN best \subseteq Nat
    BY <2>1 DEF Bests
  <2> QED BY <2>1, <2>2
<1>7. \A k \in DOMAIN best : best[k].feature = 0
  BY <1>6 DEF Strongest, Into
<1>8. MidCycle(rgDevices', best)
  <2>1. MidCycle(InBuckets(rgDevices, best), best)
    BY <1>1, <1>6, <1>7, InBucketsMid
  <2> QED BY <1>1, <1>3, <1>5, <2>1, ByFingerprintMid
<1>9. /\ rgDevices' \in RgMaps
      /\ \A k \in DOMAIN rgDevices' :
           DeviceOk(rgDevices'[k], rgCycle + 1) /\ ShowsBest(rgDevices', k, best)
  BY <1>8 DEF MidCycle
<1>10. rgCycle' = rgCycle + 1 /\ rgCycle' \in Nat
  BY <1>1 DEF RgUpdateCycle
<1>11. RgBestOfBucket'
  <2> DEFINE here(k) == {x \in ToSet(rgLast') : x.key = k /\ x.feature = 0}
  <2>1. \A k : here(k) = Into(ds, Len(ds), k)
    BY <1>2, <1>3 DEF Into, ToSet
  <2> SUFFICES ASSUME NEW k \in DOMAIN rgDevices', rgDevices'[k].readings = <<>>
               PROVE  /\ rgDevices'[k].hits = Cardinality(rgDevices'[k].cycles)
                      /\ rgDevices'[k].seen = rgCycle' =>
                           /\ rgDevices'[k].shown \in here(k)
                           /\ rgDevices'[k].shown.confirmed = (\E x \in here(k) : x.confirmed)
                           /\ \A x \in here(k) :
                                x.confirmed = rgDevices'[k].shown.confirmed =>
                                  x.power <= rgDevices'[k].shown.power
    BY DEF RgBestOfBucket
  <2>2. rgDevices'[k].hits = Cardinality(rgDevices'[k].cycles)
    BY <1>9 DEF DeviceOk
  <2>3. ASSUME rgDevices'[k].seen = rgCycle'
        PROVE  /\ k \in DOMAIN best /\ rgDevices'[k].shown = best[k]
               /\ Strongest(best[k], here(k))
    <3>1. k \in DOMAIN best /\ rgDevices'[k].shown = best[k]
      BY <1>9, <1>10, <2>3 DEF ShowsBest
    <3> QED BY <1>6, <2>1, <3>1
  <2>4. ASSUME rgDevices'[k].seen = rgCycle'
        PROVE  rgDevices'[k].shown.confirmed = (\E x \in here(k) : x.confirmed)
    <3>1. best[k] \in RgDetections
      BY <1>6, <2>3, <2>4 DEF Bests
    <3>2. best[k].confirmed \in BOOLEAN
      BY <3>1, DetectionTyped
    <3>3. best[k].confirmed <=> \E x \in here(k) : x.confirmed
      BY <2>3, <2>4 DEF Strongest
    <3>4. rgDevices'[k].shown = best[k]
      BY <2>3, <2>4
    <3> HIDE DEF here
    <3> QED BY ONLY <3>2, <3>3, <3>4
  <2> HIDE DEF here
  <2>5. ASSUME rgDevices'[k].seen = rgCycle'
        PROVE  /\ rgDevices'[k].shown \in here(k)
               /\ \A x \in here(k) : x.confirmed = rgDevices'[k].shown.confirmed =>
                    x.power <= rgDevices'[k].shown.power
    BY <2>3, <2>5 DEF Strongest
  <2> QED BY <2>2, <2>4, <2>5
<1>12. \A k \in DOMAIN rgDevices' : DeviceOk(rgDevices'[k], rgCycle')
  BY ONLY <1>9, <1>10
<1> QED BY ONLY <1>9, <1>10, <1>11, <1>12 DEF RgInv, DeviceOk

\* update_cycle: whatever the order of a cycle's detections, a bucket that only energy
\* and modulation detectors saw shows its best one and counts its cycles.
THEOREM RgBestOfBucketHolds == RgSpec => []RgBestOfBucket
<1>1. RgInit => RgInv
  <2> SUFFICES ASSUME RgInit PROVE RgInv
    OBVIOUS
  <2>1. <<>> \in [{} -> RgRecords] /\ {} \in SUBSET Nat
    OBVIOUS
  <2>2. <<>> \in RgMaps
    BY ONLY <2>1 DEF RgMaps
  <2>3. rgDevices = <<>> /\ rgCycle = 0
    BY DEF RgInit
  <2>4. DOMAIN rgDevices = {}
    BY <2>3
  <2> QED BY <2>2, <2>3, <2>4 DEF RgInv, RgBestOfBucket
<1>2. RgInv /\ [RgUpdateCycle]_rgVars => RgInv'
  <2> SUFFICES ASSUME RgInv, [RgUpdateCycle]_rgVars PROVE RgInv'
    OBVIOUS
  <2>1. CASE RgUpdateCycle
    BY <2>1, CycleKeepsInv
  <2>2. CASE UNCHANGED rgVars
    BY <2>2 DEF RgInv, RgBestOfBucket, rgVars
  <2> QED BY <2>1, <2>2
<1>3. RgInv => RgBestOfBucket
  BY DEF RgInv
<1> QED BY <1>1, <1>2, <1>3, PTL DEF RgSpec

=============================================================================
