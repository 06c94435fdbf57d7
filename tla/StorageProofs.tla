---------------------------- MODULE StorageProofs ----------------------------
(***************************************************************************)
(* What the device keeps through power cuts, for any number of domains,    *)
(* stores, generations, cards and saves. Three arguments follow. The       *)
(* boot of the retained partition: PartitionInv says what each step finds. *)
(* The files on a card: OpFiles says what a step of an operation leaves,   *)
(* so that only a commit changes what a read finds. The factory reset      *)
(* against the cards: a lifetime ends when an entry is recorded;           *)
(* JournalInv and DomainInv follow the entry, WroteInv dates the saves,    *)
(* PurgeInv and FreshInv say which cards may be admitted, and FenceInv     *)
(* keeps every marker behind the generation of the next reset.             *)
(***************************************************************************)
EXTENDS CardStore, RetainedPartition, WellFoundedInduction, TLAPS

-----------------------------------------------------------------------------
(* The boot of the retained partition.                                     *)

(* A read finds the value last saved, or none when an erase has begun.     *)
Kept == Stored \in expected

Unmarked == ~Some("v1") /\ ~Some("v2")

(* What the markers, the anchor and the sentinel say of the partition      *)
(* agree. With one writer they can disagree only as a power cut of the     *)
(* boot leaves them.                                                       *)
ClaimsAgree ==
  /\ \A s \in Sides : meta[s] # "newer"
  /\ region # "foreign"
  /\ sentinel => region = "anchored"
  /\ ~(Some("v1") /\ Some("v2"))
  /\ Unmarked /\ ~sentinel => region = "blank"
  /\ Some("v2") => region = "anchored" \/ BlankResume
  /\ region = "blank" \/ BlankResume => dedicated = 0

(* The sentinel is written over an anchored partition with both markers,   *)
(* or before one that a predecessor had claimed is finalized.              *)
Established ==
  /\ region = "anchored"
  /\ CASE boot.finalize = "no" -> Both
       [] boot.finalize = "pending" -> ~Unmarked /\ ~BlankResume
       [] OTHER -> FALSE

(* The markers are written first on a new device, last when a              *)
(* predecessor's are replaced.                                             *)
Prepares == (boot.finalize = "now" => sentinel) /\ boot.finalize # "pending"

(* What is established when the boot is at a step, and the store at one of *)
(* its own: an older copy is dropped only where a newer one stands, and    *)
(* the value in the partition is erased only after it.                     *)
Place ==
  CASE boot.pc = "off" -> boot = BootOff
    [] boot.pc = "refused" -> FALSE
    [] boot.pc = "failed" -> TRUE
    [] boot.pc = "require" ->
         boot.finalize = "no" /\ region = "anchored" /\ (sentinel \/ Some("v2")) /\ ~Some("v1")
    [] boot.pc = "ensure" -> boot.finalize = "no" /\ (BlankResume \/ Some("v1"))
    [] boot.pc = "erase" -> Prepares /\ (Unmarked \/ sentinel)
    [] boot.pc = "write_first" -> Prepares /\ meta = Blanks
    [] boot.pc = "write_anchor" -> Prepares /\ meta = MetaIs("v2", "erased")
    [] boot.pc \in {"write_last", "fill_last"} -> Prepares /\ meta = MetaIs("v2", "erased") /\ region = "anchored"
    [] boot.pc = "fill_first" -> Prepares /\ meta = MetaIs("erased", "v2") /\ region = "anchored" /\ boot.finalize = "no"
    [] boot.pc = "sentinel" -> Established
    [] boot.pc = "retired" -> Established /\ sentinel
    [] boot.pc = "ready" -> sentinel
    [] boot.pc = "drop_legacy" -> sentinel /\ dedicated # 0
    [] boot.pc = "erase_value" -> sentinel /\ legacy = 0

Serving == Kept /\ ClaimsAgree /\ Place
(* A partition that was never ours, or that was erased under us, is        *)
(* refused for ever.                                                       *)
Stuck ==
  /\ spoiled /\ boot.pc \in {"off", "refused"}
  /\ \/ Some("newer") /\ ~sentinel
     \/ /\ ~Some("v1")
        /\ IF Some("v2") THEN region = "blank" /\ ~BlankResume
           ELSE sentinel <=> region = "blank"
PartitionInv == Stuck \/ Serving

-----------------------------------------------------------------------------
(* The markers, and the types.                                             *)

(* The markers and the boot's place, as the types have them.               *)
Marks == {"erased", "torn", "v1", "v2", "newer"}
Boots == [pc : BootLabels, finalize : {"no", "pending", "now"}]

(* Two markers are told apart by their sides.                              *)
LEMMA TwoMarkers ==
  ASSUME NEW m \in [Sides -> Marks], NEW a, NEW b
  PROVE  m = MetaIs(a, b) <=> m["first"] = a /\ m["last"] = b
<1>1. DOMAIN m = Sides
  OBVIOUS
<1>2. MetaIs(a, b)["first"] = a /\ MetaIs(a, b)["last"] = b
  BY DEF MetaIs, Sides
<1>3. ASSUME m["first"] = a, m["last"] = b
      PROVE  m = MetaIs(a, b)
  <2>1. \A s \in Sides : m[s] = MetaIs(a, b)[s]
    BY <1>2, <1>3 DEF Sides
  <2> QED
    BY <2>1 DEF MetaIs
<1> QED
  BY <1>2, <1>3

(* What the boot reads of the markers, by their sides ...                  *)
LEMMA MarkersRead ==
  ASSUME PartitionTypeOK
  PROVE  /\ \A v : Some(v) <=> (meta["first"] = v \/ meta["last"] = v)
         /\ Both <=> (meta["first"] = "v2" /\ meta["last"] = "v2")
         /\ BlankResume <=> (meta["first"] = "v2" /\ meta["last"] = "erased" /\ ~sentinel)
         /\ meta = Blanks <=> (meta["first"] = "erased" /\ meta["last"] = "erased")
         /\ \A a, b : meta = MetaIs(a, b) <=> (meta["first"] = a /\ meta["last"] = b)
         /\ meta["first"] \in Marks /\ meta["last"] \in Marks
<1>1. meta \in [Sides -> Marks]
  BY DEF PartitionTypeOK, Marks
<1>2. meta["first"] \in Marks /\ meta["last"] \in Marks
  BY <1>1 DEF Sides
<1> QED
  BY <1>1, <1>2, TwoMarkers DEF Some, Both, BlankResume, Blanks, Sides

(* ... and after a step.                                                   *)
LEMMA MarkersReadNext ==
  ASSUME PartitionTypeOK'
  PROVE  /\ \A v : Some(v)' <=> (meta'["first"] = v \/ meta'["last"] = v)
         /\ Both' <=> (meta'["first"] = "v2" /\ meta'["last"] = "v2")
         /\ BlankResume' <=> (meta'["first"] = "v2" /\ meta'["last"] = "erased" /\ ~sentinel')
         /\ (meta = Blanks)' <=> (meta'["first"] = "erased" /\ meta'["last"] = "erased")
         /\ \A a, b : meta' = MetaIs(a, b) <=> (meta'["first"] = a /\ meta'["last"] = b)
         /\ meta'["first"] \in Marks /\ meta'["last"] \in Marks
<1>1. meta' \in [Sides -> Marks]
  BY DEF PartitionTypeOK, Marks
<1>2. meta'["first"] \in Marks /\ meta'["last"] \in Marks
  BY <1>1 DEF Sides
<1> QED
  BY <1>1, <1>2, TwoMarkers DEF Some, Both, BlankResume, Blanks, Sides

(* Where prepare_retained_nvs_markers goes on ...                          *)
LEMMA PrepareLeads == Prepare \in {"write_first", "erase"} /\ (Prepare = "write_first" <=> meta = Blanks)
BY DEF Prepare

(* ... and where the boot goes on once the anchor stands.                  *)
LEMMA AnchorLeads ==
  ASSUME PartitionTypeOK
  PROVE  /\ AfterAnchor \in Boots
         /\ \/ /\ meta = MetaIs("v2", "erased")
               /\ AfterAnchor.pc = "fill_last" /\ AfterAnchor.finalize = boot.finalize
            \/ /\ meta = MetaIs("erased", "v2")
               /\ AfterAnchor.pc = "fill_first" /\ AfterAnchor.finalize = boot.finalize
            \/ /\ Some("v2") /\ ~Both /\ ~Some("erased") /\ sentinel
               /\ AfterAnchor.pc = Prepare /\ AfterAnchor.finalize = boot.finalize
            \/ /\ Some("v2") /\ ~Both /\ ~Some("erased") /\ ~sentinel
               /\ AfterAnchor.pc = "sentinel" /\ AfterAnchor.finalize = "pending"
            \/ /\ Both
               /\ AfterAnchor.pc = "sentinel" /\ AfterAnchor.finalize = boot.finalize
            \/ /\ ~Some("v2") /\ Some("v1")
               /\ AfterAnchor.pc = "sentinel" /\ AfterAnchor.finalize = "pending"
            \/ /\ ~Some("v2") /\ ~Some("v1")
               /\ AfterAnchor.pc = Prepare /\ AfterAnchor.finalize = boot.finalize
<1>0. boot \in Boots /\ "sentinel" \in BootLabels /\ "fill_last" \in BootLabels
      /\ "fill_first" \in BootLabels /\ Prepare \in BootLabels
  BY PrepareLeads DEF PartitionTypeOK, Boots, BootLabels
<1>m. /\ meta = MetaIs("v2", "erased") => Some("v2") /\ ~Both /\ Some("erased") /\ meta # MetaIs("erased", "v2")
      /\ meta = MetaIs("erased", "v2") => Some("v2") /\ ~Both /\ Some("erased")
      /\ Both => Some("v2")
      /\ Some("v2") /\ ~Both /\ Some("erased") => meta = MetaIs("v2", "erased") \/ meta = MetaIs("erased", "v2")
  BY MarkersRead
<1>1. CASE meta = MetaIs("v2", "erased")
  <2>1. AfterAnchor = [boot EXCEPT !.pc = "fill_last"]
    BY <1>1, <1>m DEF AfterAnchor
  <2> QED
    BY <2>1, <1>0, <1>1 DEF Boots
<1>2. CASE meta = MetaIs("erased", "v2")
  <2>1. AfterAnchor = [boot EXCEPT !.pc = "fill_first"]
    BY <1>2, <1>m DEF AfterAnchor
  <2> QED
    BY <2>1, <1>0, <1>2 DEF Boots
<1>3. CASE Some("v2") /\ ~Both /\ ~Some("erased")
  <2>0. meta # MetaIs("v2", "erased") /\ meta # MetaIs("erased", "v2")
    BY <1>3, <1>m
  <2>1. AfterAnchor = IF sentinel THEN [boot EXCEPT !.pc = Prepare]
                      ELSE [boot EXCEPT !.pc = "sentinel", !.finalize = "pending"]
    BY <1>3, <2>0 DEF AfterAnchor
  <2>2. CASE sentinel
    BY <2>1, <2>2, <1>0, <1>3 DEF Boots
  <2>3. CASE ~sentinel
    BY <2>1, <2>3, <1>0, <1>3 DEF Boots
  <2> QED
    BY <2>2, <2>3
<1>4. CASE Both
  <2>1. AfterAnchor = [boot EXCEPT !.pc = "sentinel"]
    BY <1>4, <1>m DEF AfterAnchor
  <2> QED
    BY <2>1, <1>0, <1>4 DEF Boots
<1>5. CASE ~Some("v2") /\ Some("v1")
  <2>1. AfterAnchor = [boot EXCEPT !.pc = "sentinel", !.finalize = "pending"]
    BY <1>5, <1>m DEF AfterAnchor
  <2> QED
    BY <2>1, <1>0, <1>5 DEF Boots
<1>6. CASE ~Some("v2") /\ ~Some("v1")
  <2>1. AfterAnchor = [boot EXCEPT !.pc = Prepare]
    BY <1>6, <1>m DEF AfterAnchor
  <2> QED
    BY <2>1, <1>0, <1>6 DEF Boots
<1> QED
  BY <1>1, <1>2, <1>3, <1>4, <1>5, <1>6, <1>m

(* The types hold at first and after every step.                           *)
LEMMA PartitionTypedInit == PartitionInit => PartitionTypeOK
<1> SUFFICES ASSUME PartitionInit PROVE PartitionTypeOK
  OBVIOUS
<1> USE PartitionAssumption
<1>1. legacy \in 0 .. MaxValues + 2 /\ dedicated \in 0 .. MaxValues + 2
  BY DEF PartitionInit
<1>2. expected \subseteq 0 .. MaxValues + 2
  BY <1>1 DEF PartitionInit, Stored
<1>3. 0 \in 0 .. MaxValues /\ 0 \in 0 .. MaxPowerCuts /\ 0 \in 0 .. MaxIoErrors
  OBVIOUS
<1>4. meta \in [Sides -> {"erased", "torn", "v1", "v2", "newer"}]
  BY DEF PartitionInit, Blanks, MetaIs
<1>5. boot \in [pc : BootLabels, finalize : {"no", "pending", "now"}]
  BY <1>3 DEF PartitionInit, BootOff, BootLabels
<1>6. spent \in [cuts : 0 .. MaxPowerCuts, errors : 0 .. MaxIoErrors, values : 0 .. MaxValues]
  BY <1>3 DEF PartitionInit
<1>7. sentinel \in BOOLEAN /\ spoiled \in BOOLEAN
  BY DEF PartitionInit
<1>8. region \in {"blank", "foreign", "bare", "anchored"}
  BY DEF PartitionInit
<1> QED
  BY <1>1, <1>2, <1>3, <1>4, <1>5, <1>6, <1>7, <1>8 DEF PartitionTypeOK

LEMMA PartitionTypedNext ==
  ASSUME PartitionTypeOK, [PartitionNext]_partitionVars
  PROVE  PartitionTypeOK'
<1> USE PartitionAssumption
<1>m. meta \in [Sides -> Marks] /\ boot \in Boots
  BY DEF PartitionTypeOK, Marks, Boots
<1>p. Prepare \in BootLabels
  BY PrepareLeads DEF BootLabels
<1>g. ASSUME NEW l \in BootLabels, BootGoes(l) PROVE boot' \in Boots
  BY <1>g, <1>m DEF BootGoes, Boots
<1>1. CASE SwitchOn
  <2>1. boot' \in Boots
    BY <1>1, <1>g, <1>p DEF SwitchOn, BootLabels
  <2> QED
    BY <1>1, <2>1 DEF SwitchOn, ClaimsKept, ValuesKept, GhostsKept, PartitionTypeOK, Boots
<1>2. CASE RequireAnchor
  <2>1. boot' \in Boots
    BY <1>2, <1>g, AnchorLeads DEF RequireAnchor, BootLabels
  <2> QED
    BY <1>2, <2>1 DEF RequireAnchor, ClaimsKept, ValuesKept, GhostsKept, PartitionTypeOK, Boots
<1>3. CASE EnsureAnchor
  <2>1. boot' \in Boots
    BY <1>3, AnchorLeads DEF EnsureAnchor
  <2> QED
    BY <1>3, <2>1 DEF EnsureAnchor, ClaimsKept, ValuesKept, GhostsKept, PartitionTypeOK, Boots
<1>4. CASE EraseMeta
  <2>1. boot' \in Boots
    BY <1>4, <1>g DEF EraseMeta, BootLabels
  <2>2. meta' \in [Sides -> {"erased", "torn", "v1", "v2", "newer"}]
    BY <1>4 DEF EraseMeta, Blanks, MetaIs
  <2> QED
    BY <1>4, <2>1, <2>2 DEF EraseMeta, ValuesKept, GhostsKept, PartitionTypeOK, Boots
<1>5. CASE WriteFirst \/ FillFirst \/ WriteLast
  <2>1. boot' \in Boots
    BY <1>5, <1>g DEF WriteFirst, FillFirst, WriteLast, BootLabels
  <2>2. meta' \in [Sides -> {"erased", "torn", "v1", "v2", "newer"}]
    BY <1>5, <1>m DEF WriteFirst, FillFirst, WriteLast, Marks
  <2> QED
    BY <1>5, <2>1, <2>2 DEF WriteFirst, FillFirst, WriteLast, ValuesKept, GhostsKept, PartitionTypeOK, Boots
<1>6. CASE WriteAnchor
  <2>1. boot' \in Boots
    BY <1>6, <1>g DEF WriteAnchor, BootLabels
  <2> QED
    BY <1>6, <2>1 DEF WriteAnchor, ValuesKept, GhostsKept, PartitionTypeOK, Boots
<1>7. CASE CopyForward \/ DropLegacy \/ BeginValueErase \/ EndValueErase
  <2>1. boot' \in Boots
    BY <1>7, <1>g DEF CopyForward, DropLegacy, BeginValueErase, EndValueErase, BootLabels
  <2>2. 0 \in 0 .. MaxValues + 2
    OBVIOUS
  <2>3. legacy' \in 0 .. MaxValues + 2 /\ dedicated' \in 0 .. MaxValues + 2
    BY <1>7, <2>2 DEF CopyForward, DropLegacy, BeginValueErase, EndValueErase, FirstErased, PartitionTypeOK
  <2>4. expected' \subseteq 0 .. MaxValues + 2
    <3>1. expected' \in {expected, expected \cup {0}, {0}}
      BY <1>7 DEF CopyForward, DropLegacy, BeginValueErase, EndValueErase, GhostsKept
    <3>2. expected \subseteq 0 .. MaxValues + 2
      BY DEF PartitionTypeOK
    <3> QED
      BY <3>1, <3>2, <2>2
  <2> QED
    BY <1>7, <2>1, <2>3, <2>4 DEF CopyForward, DropLegacy, BeginValueErase, EndValueErase, ClaimsKept, GhostsKept,
       PartitionTypeOK, Boots
<1>8. CASE EraseFails
  <2>1. boot' \in Boots
    BY <1>8, <1>g DEF EraseFails, BootLabels
  <2>2. spent' \in [cuts : 0 .. MaxPowerCuts, errors : 0 .. MaxIoErrors, values : 0 .. MaxValues]
    BY <1>8 DEF EraseFails, PartitionTypeOK
  <2> QED
    BY <1>8, <2>1, <2>2 DEF EraseFails, ClaimsKept, ValuesKept, PartitionTypeOK, Boots
<1>9. CASE WriteSentinel \/ LoadRetired
  <2>1. boot' \in Boots
    BY <1>9, <1>m, <1>p DEF WriteSentinel, LoadRetired, BootGoes, Boots, BootLabels
  <2> QED
    BY <1>9, <2>1 DEF WriteSentinel, LoadRetired, ClaimsKept, ValuesKept, GhostsKept, PartitionTypeOK, Boots
<1>10. CASE SaveValue
  <2>1. boot' \in Boots
    BY <1>10, <1>g DEF SaveValue, BootLabels
  <2>2. spent.values \in Nat /\ spent.values < MaxValues
    BY <1>10 DEF SaveValue, PartitionTypeOK
  <2>3. dedicated' \in 0 .. MaxValues + 2 /\ expected' \subseteq 0 .. MaxValues + 2
    BY <1>10, <2>2 DEF SaveValue
  <2>4. spent' \in [cuts : 0 .. MaxPowerCuts, errors : 0 .. MaxIoErrors, values : 0 .. MaxValues]
    BY <1>10, <2>2 DEF SaveValue, PartitionTypeOK
  <2> QED
    BY <1>10, <2>1, <2>3, <2>4 DEF SaveValue, ClaimsKept, PartitionTypeOK, Boots
<1>11. CASE Restarts
  <2>1. boot' \in Boots
    BY <1>11 DEF Restarts, BootOff, Boots, BootLabels
  <2> QED
    BY <1>11, <2>1 DEF Restarts, ClaimsKept, ValuesKept, GhostsKept, PartitionTypeOK, Boots
<1>12. CASE IoError
  <2>1. boot' \in Boots
    BY <1>12, <1>g DEF IoError, BootLabels
  <2>2. spent' \in [cuts : 0 .. MaxPowerCuts, errors : 0 .. MaxIoErrors, values : 0 .. MaxValues]
    BY <1>12 DEF IoError, PartitionTypeOK
  <2> QED
    BY <1>12, <2>1, <2>2 DEF IoError, ClaimsKept, ValuesKept, PartitionTypeOK, Boots
<1>13. CASE PowerFails
  <2>1. boot' \in Boots
    BY <1>13 DEF PowerFails, BootOff, Boots, BootLabels
  <2>2. spent' \in [cuts : 0 .. MaxPowerCuts, errors : 0 .. MaxIoErrors, values : 0 .. MaxValues]
    BY <1>13 DEF PowerFails, PartitionTypeOK
  <2>3. meta' \in [Sides -> Marks]
    <3>1. meta' \in WithinMeta \cup {meta}
      BY <1>13 DEF PowerFails
    <3>2. WithinMeta \subseteq [Sides -> Marks]
      <4>1. CASE boot.pc \in {"write_first", "fill_first"}
        BY <4>1, <1>m DEF WithinMeta, Marks
      <4>2. CASE boot.pc \in {"write_last", "fill_last"}
        BY <4>2, <1>m DEF WithinMeta, Marks
      <4>3. CASE BootAt("erase")
        BY <4>3, <1>m DEF WithinMeta, Marks, BootAt
      <4>4. CASE boot.pc \notin {"write_first", "fill_first", "write_last", "fill_last", "erase"}
        BY <4>4, <1>m DEF WithinMeta, Marks, BootAt
      <4> QED
        BY <4>1, <4>2, <4>3, <4>4 DEF BootAt
    <3> QED
      BY <3>1, <3>2, <1>m
  <2>4. region' \in {"blank", "foreign", "bare", "anchored"}
    BY <1>13 DEF PowerFails, PartitionTypeOK
  <2> QED
    BY <1>13, <2>1, <2>2, <2>3, <2>4 DEF PowerFails, ValuesKept, PartitionTypeOK, Boots, Marks
<1>14. CASE Wipe
  BY <1>14 DEF Wipe, PartitionTypeOK
<1>15. CASE \E s \in Sides : DamageMarker(s)
  <2>1. PICK s \in Sides : DamageMarker(s)
    BY <1>15
  <2>2. spent' \in [cuts : 0 .. MaxPowerCuts, errors : 0 .. MaxIoErrors, values : 0 .. MaxValues]
    BY <2>1 DEF DamageMarker, PartitionTypeOK
  <2>3. meta' \in [Sides -> Marks]
    BY <2>1, <1>m DEF DamageMarker, Marks
  <2> QED
    BY <2>1, <2>2, <2>3 DEF DamageMarker, ValuesKept, PartitionTypeOK, Marks
<1>16. CASE UNCHANGED partitionVars
  BY <1>16 DEF partitionVars, PartitionTypeOK
<1> QED
  BY <1>1, <1>2, <1>3, <1>4, <1>5, <1>6, <1>7, <1>8, <1>9, <1>10, <1>11, <1>12, <1>13, <1>14, <1>15, <1>16
     DEF PartitionNext

-----------------------------------------------------------------------------
(* The steps.                                                              *)

(* No step takes a refused partition into service, and none but a boot or  *)
(* a restart is left to it.                                                *)
LEMMA StuckStays ==
  ASSUME PartitionTypeOK, PartitionTypeOK', Stuck, [PartitionNext]_partitionVars
  PROVE  Stuck'
<1>r. Refused
  BY DEF Stuck, Refused
<1>b. boot \in Boots
  BY DEF PartitionTypeOK, Boots
<1>k. ASSUME ClaimsKept, UNCHANGED spoiled, boot'.pc \in {"off", "refused"} PROVE Stuck'
  BY <1>k DEF Stuck, ClaimsKept, Some, BlankResume
<1>1. CASE SwitchOn
  <2>1. boot'.pc = "refused"
    BY <1>1, <1>r, <1>b DEF SwitchOn, BootGoes, Boots
  <2> QED
    BY <1>1, <2>1, <1>k DEF SwitchOn, GhostsKept
<1>2. CASE Restarts
  <2>1. boot'.pc = "off"
    BY <1>2 DEF Restarts, BootOff
  <2> QED
    BY <1>2, <2>1, <1>k DEF Restarts, GhostsKept
<1>3. CASE \E s \in Sides : DamageMarker(s)
  <2>1. PICK s \in Sides : DamageMarker(s)
    BY <1>3
  <2>2. meta' = [meta EXCEPT ![s] = "torn"] /\ sentinel /\ UNCHANGED <<region, sentinel, boot, spoiled>>
    BY <2>1 DEF DamageMarker
  <2>3. \A t \in Sides : meta'[t] \in {meta[t], "torn"}
    BY <2>2 DEF PartitionTypeOK
  <2>4. meta'["first"] \in {meta["first"], "torn"} /\ meta'["last"] \in {meta["last"], "torn"}
    BY <2>3 DEF Sides
  <2> QED
    BY <2>2, <2>4, MarkersRead, MarkersReadNext DEF Stuck
<1>4. CASE UNCHANGED partitionVars
  BY <1>4, <1>k DEF partitionVars, ClaimsKept, Stuck
<1> QED
  BY <1>1, <1>2, <1>3, <1>4
     DEF PartitionNext, Stuck, BootAt, RequireAnchor, EnsureAnchor, EraseMeta, WriteFirst, WriteAnchor,
         WriteLast, FillFirst, WriteSentinel, LoadRetired, CopyForward, SaveValue, DropLegacy,
         BeginValueErase, EndValueErase, EraseFails, IoError, PowerFails, Booting, Wipe

(* A device as it comes is one or the other.                               *)
LEMMA ServesInit ==
  ASSUME PartitionInit PROVE PartitionInv
<1>0. PartitionTypeOK
  BY PartitionTypedInit
<1>1. boot.pc = "off" /\ boot = BootOff
  BY DEF PartitionInit, BootOff
<1>2. CASE spoiled
  <2>1. (meta = Blanks /\ region = "foreign") \/ meta = MetaIs("newer", "newer")
    <3>1. meta = Blanks => meta["first"] # "newer"
      BY <1>0, MarkersRead
    <3>2. meta = MetaIs("v1", "v1") => meta["first"] # "newer"
      BY <1>0, MarkersRead
    <3> QED
      BY <1>2, <3>1, <3>2 DEF PartitionInit
  <2>2. ~sentinel
    BY DEF PartitionInit
  <2> QED
    BY <2>1, <2>2, <1>0, <1>1, <1>2, MarkersRead DEF PartitionInv, Stuck
<1>3. CASE ~spoiled
  <2>1. region # "foreign" /\ ~sentinel
    BY <1>3 DEF PartitionInit
  <2>2. (meta = Blanks /\ region = "blank") \/ (meta = MetaIs("v1", "v1") /\ region \in {"blank", "bare"})
    <3>1. meta = MetaIs("newer", "newer") => meta["first"] = "newer"
      BY <1>0, MarkersRead
    <3> QED
      BY <1>3, <3>1 DEF PartitionInit
  <2>3. region = "blank" => dedicated = 0
    BY DEF PartitionInit
  <2>4. ClaimsAgree
    BY <2>1, <2>2, <2>3, <1>0, MarkersRead DEF ClaimsAgree, Unmarked, Sides
  <2>5. Kept
    BY DEF PartitionInit, Kept
  <2>6. Place
    BY <1>1 DEF Place
  <2> QED
    BY <2>4, <2>5, <2>6 DEF PartitionInv, Serving
<1> QED
  BY <1>2, <1>3

(* Steps that leave the claims, or the values, alone.                      *)
LEMMA ClaimsStand ==
  ASSUME ClaimsAgree, ClaimsKept, UNCHANGED dedicated
  PROVE  ClaimsAgree'
BY DEF ClaimsAgree, ClaimsKept, Some, BlankResume, Unmarked

LEMMA ValuesStand ==
  ASSUME Kept, ValuesKept, UNCHANGED expected
  PROVE  Kept'
BY DEF Kept, Stored, ValuesKept

(* One lemma for each step of the boot: what is kept stays kept, and the   *)
(* next step finds what it needs.                                          *)
LEMMA ServesSwitchOn ==
  ASSUME PartitionTypeOK, PartitionTypeOK', Serving, SwitchOn
  PROVE  Serving'
<1>1. boot = BootOff /\ ClaimsAgree /\ Kept
  BY DEF Serving, Place, SwitchOn, BootAt
<1>2. ClaimsKept /\ ValuesKept /\ GhostsKept
  BY DEF SwitchOn
<1>3. ~Refused
  BY <1>1, MarkersRead DEF ClaimsAgree, Refused, Unmarked, Sides
<1>4. boot'.finalize = "no"
      /\ boot'.pc = (IF Some("v2") THEN (IF BlankResume THEN "ensure" ELSE "require")
                     ELSE IF Some("v1") THEN "ensure"
                     ELSE IF region = "blank" THEN Prepare ELSE "require")
  BY <1>1, <1>3 DEF SwitchOn, BootGoes, BootOff
<1>5. ClaimsAgree' /\ Kept'
  BY <1>1, <1>2, ClaimsStand, ValuesStand DEF ValuesKept, GhostsKept
<1>6. /\ UNCHANGED <<meta, region, sentinel>>
      /\ Some("v1")' = Some("v1") /\ Some("v2")' = Some("v2") /\ BlankResume' = BlankResume
      /\ Unmarked' = Unmarked
  BY <1>2 DEF ClaimsKept, Some, BlankResume, Unmarked
<1>8. Place'
  <2>1. CASE Some("v2") /\ BlankResume
    BY <2>1, <1>4, <1>6 DEF Place
  <2>2. CASE Some("v2") /\ ~BlankResume
    BY <2>2, <1>1, <1>4, <1>6 DEF Place, ClaimsAgree
  <2>3. CASE ~Some("v2") /\ Some("v1")
    BY <2>3, <1>4, <1>6 DEF Place
  <2>4. CASE Unmarked /\ region = "blank"
    BY <2>4, <1>4, <1>6, PrepareLeads DEF Place, Unmarked, Prepares
  <2>5. CASE Unmarked /\ region # "blank"
    <3>1. region = "anchored" /\ sentinel
      BY <2>5, <1>1 DEF ClaimsAgree, PartitionTypeOK
    <3> QED
      BY <2>5, <3>1, <1>4, <1>6 DEF Place, Unmarked
  <2> QED
    BY <2>1, <2>2, <2>3, <2>4, <2>5 DEF Unmarked
<1> QED
  BY <1>5, <1>8 DEF Serving

(* Where the anchor's step leads when the anchor stands. *)
LEMMA AnchorServes ==
  ASSUME PartitionTypeOK, PartitionTypeOK', ClaimsAgree,
         boot' = AfterAnchor, boot.finalize = "no",
         UNCHANGED <<meta, sentinel>>, region' = "anchored",
         Unmarked => sentinel
  PROVE  Place'
<1>1. /\ boot'.finalize \in {"no", "pending"}
  BY AnchorLeads
<1>2. /\ \A v : Some(v)' = Some(v)
      /\ Both' = Both /\ BlankResume' = BlankResume /\ Unmarked' = Unmarked
      /\ \A a, b : meta' = MetaIs(a, b) <=> meta = MetaIs(a, b)
      /\ sentinel' = sentinel
  BY DEF Some, Both, BlankResume, Unmarked
<1>5. CASE meta = MetaIs("v2", "erased") /\ boot'.pc = "fill_last" /\ boot'.finalize = "no"
  BY <1>5, <1>2 DEF Place, Prepares
<1>6. CASE meta = MetaIs("erased", "v2") /\ boot'.pc = "fill_first" /\ boot'.finalize = "no"
  BY <1>6, <1>2 DEF Place, Prepares
<1>7. CASE boot'.pc = Prepare /\ boot'.finalize = "no" /\ (sentinel \/ Unmarked)
  <2>1. CASE boot'.pc = "write_first" /\ meta = Blanks
    BY <2>1, <1>7, <1>2 DEF Place, Prepares
  <2>2. CASE boot'.pc = "erase"
    BY <2>2, <1>7, <1>2 DEF Place, Prepares
  <2> QED
    BY <1>7, <2>1, <2>2, PrepareLeads
<1>8. CASE Some("v2") /\ ~Both /\ ~Some("erased") /\ boot'.pc = "sentinel" /\ boot'.finalize = "pending"
  <2>1. ~Unmarked /\ ~BlankResume
    BY <1>8, MarkersRead DEF Unmarked
  <2> QED
    BY <1>8, <1>1, <1>2, <2>1 DEF Place, Established
<1>9. CASE Both /\ boot'.pc = "sentinel" /\ boot'.finalize = "no"
  BY <1>9, <1>1, <1>2 DEF Place, Established
<1>10. CASE ~Some("v2") /\ Some("v1") /\ boot'.pc = "sentinel" /\ boot'.finalize = "pending"
  <2>1. ~Unmarked /\ ~BlankResume
    BY <1>10, MarkersRead DEF Unmarked
  <2> QED
    BY <1>10, <1>1, <1>2, <2>1 DEF Place, Established
<1> QED
  BY <1>5, <1>6, <1>7, <1>8, <1>9, <1>10, AnchorLeads DEF Unmarked

LEMMA ServesRequireAnchor ==
  ASSUME PartitionTypeOK, PartitionTypeOK', Serving, RequireAnchor
  PROVE  Serving'
<1>1. /\ boot.pc = "require" /\ boot.finalize = "no" /\ region = "anchored"
      /\ Unmarked => sentinel
  BY DEF Serving, Place, RequireAnchor, BootAt, Unmarked
<1>2. boot' = AfterAnchor /\ ClaimsKept /\ ValuesKept /\ GhostsKept
  BY <1>1 DEF RequireAnchor
<1>3. ClaimsAgree' /\ Kept'
  BY <1>2, ClaimsStand, ValuesStand DEF Serving, ValuesKept, GhostsKept
<1>4. Place'
  BY <1>1, <1>2, AnchorServes DEF Serving, ClaimsKept
<1> QED
  BY <1>3, <1>4 DEF Serving

LEMMA ServesEnsureAnchor ==
  ASSUME PartitionTypeOK, PartitionTypeOK', Serving, EnsureAnchor
  PROVE  Serving'
<1>1. /\ boot.finalize = "no" /\ (BlankResume \/ Some("v1"))
  BY DEF Serving, Place, EnsureAnchor, BootAt
<1>2. boot' = AfterAnchor /\ region' = "anchored" /\ UNCHANGED <<meta, sentinel>> /\ ValuesKept /\ GhostsKept
  BY DEF EnsureAnchor
<1>3. ~Unmarked
  BY <1>1, MarkersRead DEF Unmarked
<1>4. ClaimsAgree'
  BY <1>2, <1>3 DEF Serving, ClaimsAgree, Unmarked, Some, BlankResume, ValuesKept
<1>5. Kept'
  BY <1>2, ValuesStand DEF Serving, GhostsKept
<1>6. Place'
  BY <1>1, <1>2, <1>3, AnchorServes DEF Serving
<1> QED
  BY <1>4, <1>5, <1>6 DEF Serving

LEMMA ServesEraseMeta ==
  ASSUME PartitionTypeOK, PartitionTypeOK', Serving, EraseMeta
  PROVE  Serving'
<1>1. boot \in Boots /\ boot.pc = "erase" /\ Prepares /\ (Unmarked \/ sentinel)
  BY DEF Serving, Place, EraseMeta, BootAt, PartitionTypeOK, Boots
<1>2. /\ meta' = Blanks /\ UNCHANGED <<region, sentinel>> /\ ValuesKept /\ GhostsKept
      /\ boot'.pc = "write_first" /\ boot'.finalize = boot.finalize
  BY <1>1 DEF EraseMeta, BootGoes, Boots
<1>3. ~BlankResume' /\ Unmarked' /\ ~Some("v1")' /\ ~Some("v2")' /\ (meta = Blanks)'
  <2>1. (meta = Blanks)'
    BY <1>2 DEF Blanks, MetaIs
  <2> QED
    BY <2>1, MarkersReadNext DEF Unmarked
<1>4. ClaimsAgree'
  <2>1. \A s \in Sides : meta'[s] # "newer"
    BY <1>2 DEF Blanks, MetaIs
  <2>2. ~sentinel => region = "blank"
    BY <1>1 DEF Serving, ClaimsAgree
  <2> QED
    BY <1>2, <1>3, <2>1, <2>2 DEF Serving, ClaimsAgree, ValuesKept
<1>5. Kept'
  BY <1>2, ValuesStand DEF Serving, GhostsKept
<1>6. Place'
  BY <1>1, <1>2, <1>3 DEF Serving, Place, Prepares, ValuesKept
<1> QED
  BY <1>4, <1>5, <1>6 DEF Serving

LEMMA ServesWriteFirst ==
  ASSUME PartitionTypeOK, PartitionTypeOK', Serving, WriteFirst
  PROVE  Serving'
<1>1. boot \in Boots /\ boot.pc = "write_first" /\ Prepares /\ meta = Blanks
  BY DEF Serving, Place, WriteFirst, BootAt, PartitionTypeOK, Boots
<1>2. /\ meta' = [meta EXCEPT !["first"] = "v2"] /\ UNCHANGED <<region, sentinel>> /\ ValuesKept /\ GhostsKept
      /\ boot'.pc = "write_anchor" /\ boot'.finalize = boot.finalize
  BY <1>1 DEF WriteFirst, BootGoes, Boots
<1>3. meta'["first"] = "v2" /\ meta'["last"] = "erased"
  BY <1>1, <1>2, MarkersRead DEF PartitionTypeOK, Sides
<1>4. Unmarked
  BY <1>1, MarkersRead DEF Unmarked
<1>5. /\ (meta = MetaIs("v2", "erased"))' /\ ~Unmarked' /\ ~Some("v1")' /\ Some("v2")'
      /\ BlankResume' <=> ~sentinel'
  BY <1>3, MarkersReadNext DEF Unmarked
<1>6. ClaimsAgree'
  <2>1. \A s \in Sides : meta'[s] # "newer"
    BY <1>3 DEF Sides
  <2>2. ~sentinel => region = "blank" /\ dedicated = 0
    BY <1>4 DEF Serving, ClaimsAgree
  <2> QED
    BY <1>2, <1>5, <2>1, <2>2 DEF Serving, ClaimsAgree, ValuesKept
<1>7. Kept'
  BY <1>2, ValuesStand DEF Serving, GhostsKept
<1>8. Place'
  BY <1>1, <1>2, <1>5 DEF Serving, Place, Prepares, ValuesKept
<1> QED
  BY <1>6, <1>7, <1>8 DEF Serving

LEMMA ServesWriteAnchor ==
  ASSUME PartitionTypeOK, PartitionTypeOK', Serving, WriteAnchor
  PROVE  Serving'
<1>1. boot \in Boots /\ boot.pc = "write_anchor" /\ Prepares /\ meta = MetaIs("v2", "erased")
  BY DEF Serving, Place, WriteAnchor, BootAt, PartitionTypeOK, Boots
<1>2. /\ region' = "anchored" /\ UNCHANGED <<meta, sentinel>> /\ ValuesKept /\ GhostsKept
      /\ boot'.pc = "write_last" /\ boot'.finalize = boot.finalize
  BY <1>1 DEF WriteAnchor, BootGoes, Boots
<1>3. ~Unmarked /\ BlankResume' = BlankResume /\ \A v : Some(v)' = Some(v)
  BY <1>1, <1>2, MarkersRead DEF Unmarked, BlankResume, Some
<1>4. ClaimsAgree'
  BY <1>2, <1>3 DEF Serving, ClaimsAgree, Unmarked, ValuesKept
<1>5. Kept'
  BY <1>2, ValuesStand DEF Serving, GhostsKept
<1>6. Place'
  BY <1>1, <1>2 DEF Serving, Place, Prepares, ValuesKept
<1> QED
  BY <1>4, <1>5, <1>6 DEF Serving

LEMMA ServesWriteLast ==
  ASSUME PartitionTypeOK, PartitionTypeOK', Serving, WriteLast
  PROVE  Serving'
<1>1. /\ boot \in Boots /\ boot.pc \in {"write_last", "fill_last"} /\ Prepares
      /\ meta = MetaIs("v2", "erased") /\ region = "anchored"
  BY DEF Serving, Place, WriteLast, PartitionTypeOK, Boots
<1>2. /\ meta' = [meta EXCEPT !["last"] = "v2"] /\ UNCHANGED <<region, sentinel>> /\ ValuesKept /\ GhostsKept
      /\ boot'.pc = (IF boot.finalize = "now" THEN "ready" ELSE "sentinel")
      /\ boot'.finalize = boot.finalize
  BY <1>1 DEF WriteLast, BootGoes, Boots
<1>3. meta'["first"] = "v2" /\ meta'["last"] = "v2"
  BY <1>1, <1>2, MarkersRead DEF PartitionTypeOK, Sides
<1>4. Both' /\ ~BlankResume' /\ ~Unmarked' /\ ~Some("v1")' /\ Some("v2")'
  BY <1>3, MarkersReadNext DEF Unmarked
<1>5. ClaimsAgree'
  <2>1. \A s \in Sides : meta'[s] # "newer"
    BY <1>3 DEF Sides
  <2> QED
    BY <1>1, <1>2, <1>4, <2>1 DEF Serving, ClaimsAgree, ValuesKept
<1>6. Kept'
  BY <1>2, ValuesStand DEF Serving, GhostsKept
<1>7. CASE boot.finalize = "now"
  BY <1>1, <1>2, <1>5, <1>6, <1>7 DEF Serving, Place, Prepares, ValuesKept
<1>8. CASE boot.finalize # "now"
  <2>1. boot.finalize = "no"
    BY <1>1, <1>8 DEF Serving, Prepares, Boots
  <2>2. boot'.pc = "sentinel" /\ boot'.finalize = "no"
    BY <1>2, <2>1
  <2> QED
    BY <1>1, <1>2, <1>4, <1>5, <1>6, <2>2 DEF Serving, Place, Established
<1> QED
  BY <1>5, <1>6, <1>7, <1>8 DEF Serving

LEMMA ServesFillFirst ==
  ASSUME PartitionTypeOK, PartitionTypeOK', Serving, FillFirst
  PROVE  Serving'
<1>1. /\ boot \in Boots /\ boot.pc = "fill_first" /\ boot.finalize = "no"
      /\ meta = MetaIs("erased", "v2") /\ region = "anchored"
  BY DEF Serving, Place, FillFirst, BootAt, PartitionTypeOK, Boots
<1>2. /\ meta' = [meta EXCEPT !["first"] = "v2"] /\ UNCHANGED <<region, sentinel>> /\ ValuesKept /\ GhostsKept
      /\ boot'.pc = "sentinel" /\ boot'.finalize = "no"
  BY <1>1 DEF FillFirst, BootGoes, Boots
<1>3. meta'["first"] = "v2" /\ meta'["last"] = "v2"
  BY <1>1, <1>2, MarkersRead DEF PartitionTypeOK, Sides
<1>4. Both' /\ ~BlankResume' /\ ~Unmarked' /\ ~Some("v1")' /\ Some("v2")'
  BY <1>3, MarkersReadNext DEF Unmarked
<1>5. ClaimsAgree'
  <2>1. \A s \in Sides : meta'[s] # "newer"
    BY <1>3 DEF Sides
  <2> QED
    BY <1>1, <1>2, <1>4, <2>1 DEF Serving, ClaimsAgree, ValuesKept
<1>6. Kept'
  BY <1>2, ValuesStand DEF Serving, GhostsKept
<1>8. Place'
  BY <1>1, <1>2, <1>4 DEF Place, Established
<1> QED
  BY <1>5, <1>6, <1>8 DEF Serving

LEMMA ServesWriteSentinel ==
  ASSUME PartitionTypeOK, PartitionTypeOK', Serving, WriteSentinel
  PROVE  Serving'
<1>1. boot \in Boots /\ boot.pc = "sentinel" /\ Established
  BY DEF Serving, Place, WriteSentinel, BootAt, PartitionTypeOK, Boots
<1>2. /\ sentinel' = TRUE /\ UNCHANGED <<meta, region>> /\ ValuesKept /\ GhostsKept
      /\ boot'.pc = "retired" /\ boot'.finalize = boot.finalize
  BY <1>1 DEF WriteSentinel, BootGoes, Boots
<1>3. region = "anchored" /\ ~Unmarked /\ ~BlankResume
  BY <1>1, MarkersRead DEF Established, Unmarked
<1>4. ~BlankResume' /\ Unmarked' = Unmarked /\ Both' = Both /\ \A v : Some(v)' = Some(v)
  BY <1>2 DEF BlankResume, Unmarked, Some, Both
<1>5. ClaimsAgree'
  BY <1>2, <1>3, <1>4 DEF Serving, ClaimsAgree
<1>6. Kept'
  BY <1>2, ValuesStand DEF Serving, GhostsKept
<1>7. Place'
  BY <1>1, <1>2, <1>3, <1>4 DEF Place, Established
<1> QED
  BY <1>5, <1>6, <1>7 DEF Serving

LEMMA ServesLoadRetired ==
  ASSUME PartitionTypeOK, PartitionTypeOK', Serving, LoadRetired
  PROVE  Serving'
<1>1. boot \in Boots /\ boot.pc = "retired" /\ sentinel
  BY DEF Serving, Place, LoadRetired, BootAt, PartitionTypeOK, Boots
<1>2. ClaimsKept /\ ValuesKept /\ GhostsKept
  BY DEF LoadRetired
<1>3. ClaimsAgree' /\ Kept' /\ sentinel' /\ meta' = meta
  BY <1>1, <1>2, ClaimsStand, ValuesStand DEF Serving, ValuesKept, GhostsKept, ClaimsKept
<1>4. Place'
  <2>1. CASE boot.finalize = "pending"
    <3>1. boot'.pc = Prepare /\ boot'.finalize = "now"
      BY <1>1, <2>1 DEF LoadRetired, Boots
    <3>2. CASE boot'.pc = "write_first" /\ meta = Blanks
      BY <3>1, <3>2, <1>3 DEF Place, Prepares
    <3>3. CASE boot'.pc = "erase"
      BY <3>1, <3>3, <1>3 DEF Place, Prepares
    <3> QED
      BY <3>1, <3>2, <3>3, PrepareLeads
  <2>2. CASE boot.finalize # "pending"
    <3>1. boot'.pc = "ready"
      BY <1>1, <2>2 DEF LoadRetired, Boots
    <3> QED
      BY <3>1, <1>3 DEF Place
  <2> QED
    BY <2>1, <2>2
<1> QED
  BY <1>3, <1>4 DEF Serving

(* The store's own steps: the older copy goes only when a newer one        *)
(* stands, and an erase ends with none of the two.                         *)
LEMMA ServesStore ==
  ASSUME PartitionTypeOK, PartitionTypeOK', Serving,
         CopyForward \/ SaveValue \/ DropLegacy \/ BeginValueErase \/ EndValueErase \/ EraseFails
  PROVE  Serving'
<1>b. boot \in Boots
  BY DEF PartitionTypeOK, Boots
<1>1. sentinel /\ ClaimsKept /\ Kept /\ ClaimsAgree
  BY DEF Serving, Place, CopyForward, SaveValue, DropLegacy, BeginValueErase, EndValueErase, EraseFails, BootAt
<1>2. region = "anchored" /\ ~BlankResume
  BY <1>1 DEF ClaimsAgree, BlankResume
<1>3. ClaimsAgree'
  BY <1>1, <1>2 DEF ClaimsAgree, ClaimsKept, Some, BlankResume, Unmarked
<1>4. Kept' /\ Place'
  <2>1. CASE CopyForward
    <3>1. boot'.pc = "drop_legacy" /\ dedicated' = legacy /\ legacy # 0 /\ dedicated = 0 /\ legacy' = legacy
      BY <2>1, <1>b DEF CopyForward, BootGoes, Boots
    <3> QED
      BY <2>1, <3>1, <1>1 DEF CopyForward, Kept, Stored, Place, ClaimsKept, GhostsKept
  <2>2. CASE SaveValue
    <3>1. boot'.pc = "drop_legacy"
      BY <2>2, <1>b DEF SaveValue, BootGoes, Boots
    <3>2. dedicated' # 0 /\ expected' = {dedicated'}
      BY <2>2 DEF SaveValue, PartitionTypeOK
    <3> QED
      BY <3>1, <3>2, <1>1 DEF Kept, Stored, Place, ClaimsKept
  <2>3. CASE DropLegacy
    <3>1. boot.pc = "drop_legacy" /\ boot'.pc = "ready" /\ dedicated # 0
      BY <2>3, <1>b DEF DropLegacy, BootAt, BootGoes, Boots, Serving, Place
    <3> QED
      BY <2>3, <3>1, <1>1 DEF DropLegacy, Kept, Stored, Place, ClaimsKept, GhostsKept
  <2>4. CASE BeginValueErase
    <3>1. boot'.pc = "erase_value" /\ legacy' = 0 /\ dedicated' = dedicated /\ expected' = expected \cup {0}
      BY <2>4, <1>b DEF BeginValueErase, FirstErased, BootGoes, Boots
    <3> QED
      BY <3>1, <1>1 DEF Kept, Stored, Place, ClaimsKept
  <2>5. CASE EndValueErase
    <3>1. boot.pc = "erase_value" /\ boot'.pc = "ready" /\ legacy = 0
      BY <2>5, <1>b DEF EndValueErase, BootAt, BootGoes, Boots, Serving, Place
    <3> QED
      BY <2>5, <3>1, <1>1 DEF EndValueErase, Kept, Stored, Place, ClaimsKept
  <2>6. CASE EraseFails
    <3>1. boot'.pc = "ready" /\ ValuesKept /\ expected' = expected
      BY <2>6, <1>b DEF EraseFails, BootGoes, Boots
    <3> QED
      BY <3>1, <1>1, ValuesStand DEF Place, ClaimsKept
  <2> QED
    BY <2>1, <2>2, <2>3, <2>4, <2>5, <2>6
<1> QED
  BY <1>3, <1>4 DEF Serving

(* An error or a restart leaves the claims and values as they are.         *)
LEMMA ServesStops ==
  ASSUME PartitionTypeOK, Serving, Restarts \/ IoError
  PROVE  Serving'
<1>1. ClaimsKept /\ ValuesKept /\ UNCHANGED expected
  BY DEF Restarts, IoError, GhostsKept
<1>2. ClaimsAgree' /\ Kept'
  BY <1>1, ClaimsStand, ValuesStand DEF Serving, ValuesKept
<1>3. (boot' = BootOff \/ boot'.pc = "failed") /\ BootOff.pc = "off"
  BY DEF Restarts, IoError, BootGoes, BootOff, PartitionTypeOK
<1>4. Place'
  BY <1>3 DEF Place
<1> QED
  BY <1>2, <1>4 DEF Serving

(* What a power cut leaves of the markers.                                 *)
LEMMA CutMarkers ==
  ASSUME PartitionTypeOK, NEW m \in WithinMeta \cup {meta}
  PROVE  /\ m["first"] \in {meta["first"], "torn", "erased"}
         /\ m["last"] \in {meta["last"], "torn", "erased"}
         /\ \/ m = meta
            \/ boot.pc = "erase"
            \/ boot.pc \in {"write_first", "fill_first"} /\ m["first"] = "torn" /\ m["last"] = meta["last"]
            \/ boot.pc \in {"write_last", "fill_last"} /\ m["last"] = "torn" /\ m["first"] = meta["first"]
<1>m. meta \in [Sides -> Marks] /\ "first" \in Sides /\ "last" \in Sides
  BY DEF PartitionTypeOK, Marks, Sides
<1>1. CASE m = meta
  BY <1>1
<1>2. CASE boot.pc \in {"write_first", "fill_first"} /\ m \in WithinMeta
  <2>1. WithinMeta = {[meta EXCEPT !["first"] = "torn"]}
    BY <1>2 DEF WithinMeta, BootAt
  <2>2. m["first"] = [meta EXCEPT !["first"] = "torn"]["first"] /\ m["last"] = [meta EXCEPT !["first"] = "torn"]["last"]
    BY <2>1, <1>2
  <2> QED
    BY <2>2, <1>2, <1>m
<1>3. CASE boot.pc \in {"write_last", "fill_last"} /\ m \in WithinMeta
  <2>1. WithinMeta = {[meta EXCEPT !["last"] = "torn"]}
    BY <1>3 DEF WithinMeta, BootAt
  <2>2. m["first"] = [meta EXCEPT !["last"] = "torn"]["first"] /\ m["last"] = [meta EXCEPT !["last"] = "torn"]["last"]
    BY <2>1, <1>3
  <2> QED
    BY <2>2, <1>3, <1>m
<1>4. CASE BootAt("erase") /\ m \in WithinMeta
  <2>1. \A s \in Sides : m[s] \in {meta[s], "torn", "erased"}
    BY <1>4 DEF WithinMeta, BootAt
  <2> QED
    BY <2>1, <1>4, <1>m DEF BootAt
<1>5. CASE boot.pc \notin {"write_first", "fill_first", "write_last", "fill_last", "erase"} /\ m \in WithinMeta
  BY <1>5 DEF WithinMeta, BootAt
<1> QED
  BY <1>1, <1>2, <1>3, <1>4, <1>5 DEF BootAt

(* Power fails within an erase or a write of a marker, or while the        *)
(* partition is created: the next boot still tells a half claimed          *)
(* partition from a strange one.                                           *)
LEMMA ServesPowerFails ==
  ASSUME PartitionTypeOK, PartitionTypeOK', Serving, PowerFails
  PROVE  Serving'
<1>1. /\ boot' = BootOff /\ UNCHANGED sentinel /\ ValuesKept /\ UNCHANGED expected
      /\ meta' \in WithinMeta \cup {meta}
      /\ region' \in (IF boot.pc \in {"ensure", "write_anchor"} /\ region = "blank" THEN {"blank", "bare"}
                      ELSE {region})
  BY DEF PowerFails
<1>2. Kept' /\ Place'
  <2>1. Kept'
    BY <1>1, ValuesStand DEF Serving
  <2>2. boot'.pc = "off"
    BY <1>1 DEF BootOff
  <2> QED
    BY <1>1, <2>1, <2>2 DEF Place
<1>3. CASE meta' = meta
  <2>1. /\ Some("v1")' = Some("v1") /\ Some("v2")' = Some("v2") /\ BlankResume' = BlankResume
        /\ Unmarked' = Unmarked /\ dedicated' = dedicated
    BY <1>1, <1>3 DEF Some, BlankResume, Unmarked, ValuesKept
  <2>2. CASE region' = region
    BY <1>1, <1>2, <1>3, <2>1, <2>2 DEF Serving, ClaimsAgree
  <2>3. CASE region' # region
    <3>1. region = "blank" /\ region' = "bare" /\ boot.pc \in {"ensure", "write_anchor"}
      BY <1>1, <2>3
    <3>2. ~Unmarked
      BY <3>1, MarkersRead DEF Serving, Place, Unmarked
    <3>3. ClaimsAgree'
      BY <1>1, <1>3, <2>1, <3>1, <3>2 DEF Serving, ClaimsAgree
    <3> QED
      BY <1>2, <3>3 DEF Serving
  <2> QED
    BY <1>2, <2>2, <2>3 DEF Serving
<1>4. CASE meta' # meta
  <2>1. /\ boot.pc \in {"erase", "write_first", "fill_first", "write_last", "fill_last"} /\ region' = region
        /\ meta'["first"] \in {meta["first"], "torn", "erased"}
        /\ meta'["last"] \in {meta["last"], "torn", "erased"}
        /\ \/ boot.pc = "erase"
           \/ boot.pc \in {"write_first", "fill_first"} /\ meta'["first"] = "torn" /\ meta'["last"] = meta["last"]
           \/ boot.pc \in {"write_last", "fill_last"} /\ meta'["last"] = "torn" /\ meta'["first"] = meta["first"]
    BY <1>1, <1>4, CutMarkers
  <2>2. \A s \in Sides : meta'[s] # "newer"
    BY <2>1 DEF Serving, ClaimsAgree, Sides
  <2>3. ~(Some("v1")' /\ Some("v2")')
    BY <2>1, MarkersRead, MarkersReadNext DEF Serving, ClaimsAgree
  <2>4. Unmarked' /\ ~sentinel => region = "blank"
    <3>1. CASE boot.pc \in {"erase", "write_first"}
      <4>1. Unmarked \/ sentinel
        <5>1. CASE boot.pc = "erase"
          BY <5>1 DEF Serving, Place
        <5>2. CASE boot.pc = "write_first"
          <6>1. meta = Blanks
            BY <5>2 DEF Serving, Place
          <6> QED
            BY <6>1, MarkersRead DEF Unmarked
        <5> QED
          BY <3>1, <5>1, <5>2
      <4> QED
        BY <4>1 DEF Serving, ClaimsAgree
    <3>2. CASE boot.pc \in {"write_last", "fill_last"}
      BY <3>2, <2>1, MarkersRead, MarkersReadNext DEF Serving, Place, Unmarked
    <3>3. CASE boot.pc = "fill_first"
      BY <3>3, <2>1, MarkersRead, MarkersReadNext DEF Serving, Place, Unmarked
    <3> QED
      BY <2>1, <3>1, <3>2, <3>3
  <2>5. Some("v2")' => region = "anchored"
    <3>1. CASE boot.pc = "erase"
      BY <3>1, <2>1, MarkersRead, MarkersReadNext DEF Serving, Place, ClaimsAgree, Unmarked
    <3>2. CASE boot.pc = "write_first"
      BY <3>2, <2>1, MarkersRead, MarkersReadNext DEF Serving, Place
    <3>3. CASE boot.pc \in {"write_last", "fill_last", "fill_first"}
      BY <3>3, <2>1 DEF Serving, Place
    <3> QED
      BY <2>1, <3>1, <3>2, <3>3
  <2>6. ~BlankResume'
    <3>1. CASE boot.pc = "erase"
      BY <3>1, <1>1, <2>1, MarkersRead, MarkersReadNext DEF Serving, Place, Unmarked
    <3>2. CASE boot.pc \in {"write_first", "fill_first", "write_last", "fill_last"}
      BY <3>2, <2>1, MarkersReadNext
    <3> QED
      BY <2>1, <3>1, <3>2
  <2>7. ClaimsAgree'
    BY <1>1, <2>1, <2>2, <2>3, <2>4, <2>5, <2>6 DEF Serving, ClaimsAgree, ValuesKept
  <2> QED
    BY <1>2, <2>7 DEF Serving
<1> QED
  BY <1>3, <1>4

(* The partition is erased under a finished boot: it is resumed as a new   *)
(* one only if nothing was moved to it.                                    *)
LEMMA ServesWipe ==
  ASSUME PartitionTypeOK, PartitionTypeOK', Serving, Wipe
  PROVE  PartitionInv'
<1>1. /\ boot = BootOff /\ Claimed
      /\ region' = "blank" /\ dedicated' = 0 /\ spoiled'
      /\ UNCHANGED <<meta, sentinel, legacy, boot, expected>>
  BY DEF Serving, Place, Wipe, BootAt
<1>2. boot.pc = "off"
  BY <1>1 DEF BootOff
<1>3. \A v : Some(v)' = Some(v) /\ BlankResume' = BlankResume /\ Unmarked' = Unmarked
  BY <1>1 DEF Some, BlankResume, Unmarked
<1>4. CASE BlankResume
  <2>1. dedicated' = dedicated
    BY <1>1, <1>4 DEF Serving, ClaimsAgree
  <2>2. Kept'
    BY <1>1, <2>1 DEF Serving, Kept, Stored
  <2>3. ~sentinel /\ Some("v2")
    BY <1>4, MarkersRead
  <2>4. ClaimsAgree'
    BY <1>1, <1>3, <1>4, <2>1, <2>3 DEF Serving, ClaimsAgree
  <2>5. Place'
    BY <1>1, <1>2 DEF Place, BootOff
  <2> QED
    BY <2>2, <2>4, <2>5 DEF PartitionInv, Serving
<1>5. CASE ~BlankResume
  BY <1>1, <1>2, <1>3, <1>5 DEF PartitionInv, Serving, ClaimsAgree, Claimed, Stuck
<1> QED
  BY <1>4, <1>5

(* A marker of an established partition is damaged.                        *)
LEMMA ServesDamage ==
  ASSUME PartitionTypeOK, PartitionTypeOK', Serving, NEW s \in Sides, DamageMarker(s)
  PROVE  Serving'
<1>1. /\ boot = BootOff /\ sentinel /\ meta' = [meta EXCEPT ![s] = "torn"]
      /\ UNCHANGED <<region, sentinel, boot>> /\ ValuesKept /\ UNCHANGED expected
  BY DEF Serving, Place, DamageMarker, BootAt
<1>2. \A t \in Sides : meta'[t] \in {meta[t], "torn"}
  BY <1>1 DEF PartitionTypeOK
<1>3. meta'["first"] \in {meta["first"], "torn"} /\ meta'["last"] \in {meta["last"], "torn"}
  BY <1>2 DEF Sides
<1>4. region = "anchored" /\ ~BlankResume'
  BY <1>1 DEF Serving, ClaimsAgree, BlankResume
<1>5. ~(Some("v1")' /\ Some("v2")')
  BY <1>3, MarkersRead, MarkersReadNext DEF Serving, ClaimsAgree
<1>6. ClaimsAgree'
  BY <1>1, <1>2, <1>4, <1>5 DEF Serving, ClaimsAgree, ValuesKept
<1>7. Kept'
  BY <1>1, ValuesStand DEF Serving
<1>8. Place'
  BY <1>1 DEF Place, BootOff
<1> QED
  BY <1>6, <1>7, <1>8 DEF Serving

-----------------------------------------------------------------------------
(* The theorems of the partition.                                          *)

(* Every step of the boot preserves the invariant.                         *)
LEMMA PartitionInvNext ==
  ASSUME PartitionTypeOK, PartitionTypeOK', PartitionInv, [PartitionNext]_partitionVars
  PROVE  PartitionInv'
<1>1. CASE Stuck
  BY <1>1, StuckStays DEF PartitionInv
<1>2. CASE Serving
  <2>1. CASE UNCHANGED partitionVars
    BY <1>2, <2>1 DEF partitionVars, PartitionInv, Serving, Kept, Stored, ClaimsAgree, Place, Some, BlankResume,
       Unmarked, Established, Prepares, Both
  <2>2. CASE CopyForward \/ SaveValue \/ DropLegacy \/ BeginValueErase \/ EndValueErase \/ EraseFails
    BY <1>2, <2>2, ServesStore DEF PartitionInv
  <2>3. CASE \E s \in Sides : DamageMarker(s)
    BY <1>2, <2>3, ServesDamage DEF PartitionInv
  <2>4. CASE Wipe
    BY <1>2, <2>4, ServesWipe
  <2>5. CASE SwitchOn \/ RequireAnchor \/ EnsureAnchor \/ EraseMeta \/ WriteFirst \/ WriteAnchor \/ WriteLast
             \/ FillFirst \/ WriteSentinel \/ LoadRetired \/ Restarts \/ IoError \/ PowerFails
    <3>1. Serving'
      BY <1>2, <2>5, ServesSwitchOn, ServesRequireAnchor, ServesEnsureAnchor, ServesEraseMeta, ServesWriteFirst,
         ServesWriteAnchor, ServesWriteLast, ServesFillFirst, ServesWriteSentinel, ServesLoadRetired, ServesStops, ServesPowerFails
    <3> QED
      BY <3>1 DEF PartitionInv
  <2> QED
    BY <2>1, <2>2, <2>3, <2>4, <2>5 DEF PartitionNext
<1> QED
  BY <1>1, <1>2 DEF PartitionInv

(* What the invariant says of a partition in service, and of a refused one.*)
LEMMA InvServesOrRefuses ==
  ASSUME PartitionTypeOK, PartitionInv
  PROVE  BootServesOrRefuses
<1>1. ASSUME InService PROVE Stored \in expected
  BY <1>1 DEF InService, PartitionInv, Stuck, Serving, Kept
<1>2. ASSUME boot.pc = "refused" PROVE spoiled
  BY <1>2 DEF PartitionInv, Stuck, Serving, Place
<1> QED
  BY <1>1, <1>2 DEF BootServesOrRefuses, BootAt

(* For any number of saves, power cuts and I/O errors: a partition is      *)
(* either ours, with the claims of the markers, the anchor and the         *)
(* sentinel in agreement with where its boot stands, and the value where   *)
(* it was last saved, or it is a strange one, which is never taken into    *)
(* service (d1l_retained_blob_store_init, initialize_retained_nvs_partition*)
(* and nvs_read_blob, nvs_write_blob and nvs_erase_blob).                  *)
THEOREM PartitionInvariant == PartitionSpec => [](PartitionTypeOK /\ PartitionInv)
<1>1. PartitionInit => PartitionTypeOK /\ PartitionInv
  BY PartitionTypedInit, ServesInit
<1>2. PartitionTypeOK /\ PartitionInv /\ [PartitionNext]_partitionVars => (PartitionTypeOK /\ PartitionInv)'
  BY PartitionTypedNext, PartitionInvNext
<1> QED
  BY <1>1, <1>2, PTL DEF PartitionSpec

(* A partition in service gives the value last saved, or none once an      *)
(* erase of it has begun, and only one that was never ours or was erased   *)
(* is refused (initialize_retained_nvs_partition, nvs_erase_blob).         *)
THEOREM BootServesOrRefusesHolds == PartitionSpec => []BootServesOrRefuses
<1>1. PartitionTypeOK /\ PartitionInv => BootServesOrRefuses
  BY InvServesOrRefuses
<1> QED
  BY <1>1, PartitionInvariant, PTL

-----------------------------------------------------------------------------
(* The generations and the types of the reset.                             *)

(* The files of a card.                                                    *)
Contents == [Files -> 0 .. MaxSaves + 1]
MarkerFiles == [Files -> 0 .. MaxGeneration]
CardsTyped == cards \in [Cards -> [data : Contents, marker : MarkerFiles]]

(* A step of the rename sets the files it works on and no other.           *)
LEMMA TargetIsSet ==
  ASSUME CardsTyped, mounted \in Cards, op.on \in {"data", "marker"}, NEW files, SetTarget(files)
  PROVE  /\ cards'[mounted][op.on] = files
         /\ \A c \in Cards \ {mounted} : cards'[c] = cards[c]
         /\ op.on = "data" => cards'[mounted].data = files /\ cards'[mounted].marker = cards[mounted].marker
         /\ op.on = "marker" => cards'[mounted].marker = files /\ cards'[mounted].data = cards[mounted].data
<1>1. cards' = [cards EXCEPT ![mounted][op.on] = files]
  BY DEF SetTarget
<1>2. CASE op.on = "data"
  BY <1>1, <1>2 DEF CardsTyped
<1>3. CASE op.on = "marker"
  BY <1>1, <1>3 DEF CardsTyped
<1> QED
  BY <1>2, <1>3

(* A set of numbers below a bound has a greatest element, by the least     *)
(* distance from the bound.                                                *)
LEMMA GreatestOfBounded ==
  ASSUME NEW M \in Nat, NEW T \in SUBSET (0 .. M), T # {}
  PROVE  Max(T) \in T /\ \A t \in T : Max(T) >= t
<1>1. DEFINE U == {M - t : t \in T}
<1>2. U \subseteq Nat /\ U # {}
  <2>1. \A t \in T : t \in 0 .. M /\ M - t \in Nat
    OBVIOUS
  <2>2. PICK t \in T : TRUE
    OBVIOUS
  <2>3. M - t \in U
    OBVIOUS
  <2> QED
    BY <2>1, <2>3
<1>3. PICK u \in U : \A v \in U : ~ (<<v, u>> \in OpToRel(<, Nat))
  <2> HIDE DEF U
  <2> QED
    BY <1>2, WFMin, NatLessThanWellFounded
<1>4. \A v \in U : ~ (v < u)
  <2> HIDE DEF U
  <2> QED
    BY <1>2, <1>3 DEF OpToRel
<1>5. PICK t \in T : u = M - t
  BY <1>3
<1>6. \A s \in T : t >= s
  <2> SUFFICES ASSUME NEW s \in T PROVE t >= s
    OBVIOUS
  <2>1. M - s \in U /\ s \in Nat /\ t \in Nat
    OBVIOUS
  <2>2. ~ (M - s < M - t)
    BY <2>1, <1>4, <1>5
  <2> QED
    BY <2>1, <2>2
<1> QED
  BY <1>6 DEF Max

(* next_sd_lineage_generation: the next generation is beyond every         *)
(* generation it was taken over, and within 32 bits.                       *)
LEMMA NextGenerationIsNew ==
  ASSUME ResetTypeOK, NEW S \in SUBSET Fences, \A s \in S : fence[s].gen < MaxGeneration
  PROVE  /\ NextGeneration(S) \in 1 .. MaxGeneration
         /\ \A s \in S : fence[s].gen < NextGeneration(S)
<1> DEFINE T == {fence[s].gen : s \in S} \cup {0}
<1>1. MaxGeneration \in Nat /\ MaxGeneration > 0
  BY ResetAssumption
<1>2. \A s \in S : fence[s].gen \in 0 .. MaxGeneration
  BY DEF ResetTypeOK
<1>3. T \subseteq 0 .. MaxGeneration /\ T # {}
  BY <1>1, <1>2
<1>4. Max(T) \in T /\ \A t \in T : Max(T) >= t
  BY <1>1, <1>3, GreatestOfBounded
<1>5. Max(T) < MaxGeneration /\ Max(T) \in Nat
  BY <1>1, <1>2, <1>4
<1>6. \A s \in S : fence[s].gen <= Max(T)
  BY <1>2, <1>4, <1>5
<1>7. NextGeneration(S) = Max(T) + 1
  BY DEF NextGeneration
<1> HIDE DEF T
<1> QED
  BY <1>1, <1>2, <1>5, <1>6, <1>7

(* What the reset may do in a step of CardStore.                           *)
FactoryStep ==
  \/ BootStep \/ RequestRefused
  \/ \E out \in Outcomes : Request(out) \/ \E found \in SUBSET Fences : Repair(found, out)
  \/ SpoilJournal \/ \E s \in Fences : SpoilFence(s)
  \/ \E d \in Domains : SaveDomain(d)
  \/ PowerCut

(* The types of the reset's variables, by name.                            *)
Runs == [pc : RunLabels, i : Domains \cup Fences, gen : 0 .. MaxGeneration]
Journals == [st : {"ABSENT", "ACTIVE", "COMPLETE", "BAD"}, gen : 0 .. MaxGeneration]
FenceRecords == [gen : 0 .. MaxGeneration, active : BOOLEAN, ok : BOOLEAN]
Budgets == [faults : 0 .. MaxFaults, cuts : 0 .. MaxCuts, saves : 0 .. MaxSaves]

LEMMA ResetTypes ==
  ResetTypeOK <=>
    /\ journal \in Journals /\ fence \in [Fences -> FenceRecords] /\ domain \in [Domains -> 0 .. lifetime]
    /\ run \in Runs /\ used \in Budgets /\ lifetime \in Nat \ {0}
BY DEF ResetTypeOK, Journals, FenceRecords, Runs, Budgets

LEMMA ResetTypesNext ==
  ResetTypeOK' <=>
    /\ journal' \in Journals /\ fence' \in [Fences -> FenceRecords] /\ domain' \in [Domains -> 0 .. lifetime']
    /\ run' \in Runs /\ used' \in Budgets /\ lifetime' \in Nat \ {0}
BY DEF ResetTypeOK, Journals, FenceRecords, Runs, Budgets

(* What the proofs use of the constants.                                   *)
LEMMA ResetConstants ==
  /\ DomainCount \in Nat /\ FenceCount \in Nat /\ MaxGeneration \in Nat /\ MaxGeneration > 0
  /\ MaxFaults \in Nat /\ MaxCuts \in Nat /\ MaxSaves \in Nat
  /\ 1 \in Domains /\ 1 \in Fences /\ 0 \in 0 .. MaxGeneration /\ Store \in Fences
BY ResetAssumption DEF Domains, Fences, Store

(* The bounds of the model are kept.                                       *)
LEMMA FaultIsCounted ==
  ASSUME used \in Budgets, AFault PROVE used' \in Budgets
BY ResetConstants DEF Budgets, AFault

LEMMA SaveIsCounted ==
  ASSUME used \in Budgets, ASave PROVE used' \in Budgets
BY ResetConstants DEF Budgets, ASave

LEMMA HappeningIsCounted ==
  ASSUME used \in Budgets, NEW out, Happens(out) PROVE used' \in Budgets
BY FaultIsCounted DEF Happens

(* Where the firmware may be, and what it may have recorded.               *)
LEMMA RecoveryIsRun == [pc |-> "recovery", i |-> 1, gen |-> 0] \in Runs
BY ResetConstants DEF Runs, RunLabels

LEMMA GoesToIsRun ==
  ASSUME run \in Runs, NEW l \in RunLabels, GoesTo(l)
  PROVE  run' \in Runs /\ run'.pc = l /\ run'.i = run.i /\ run'.gen = run.gen
BY DEF GoesTo, Runs

LEMMA EntryIsJournal ==
  ASSUME NEW st \in {"ABSENT", "ACTIVE", "COMPLETE", "BAD"}, NEW g \in 0 .. MaxGeneration
  PROVE  Entry(st, g) \in Journals /\ Entry(st, g).st = st /\ Entry(st, g).gen = g
BY DEF Entry, Journals

(* The types hold at first and after every step of the reset.              *)
LEMMA ResetTypedInit == ResetInit => ResetTypeOK
<1> SUFFICES ASSUME ResetInit PROVE ResetTypeOK
  OBVIOUS
<1>1. journal \in Journals
  BY ResetConstants DEF ResetInit, NoEntry, Journals
<1>2. fence \in [Fences -> FenceRecords] /\ domain \in [Domains -> 0 .. lifetime]
  BY ResetConstants DEF ResetInit, FenceRecords
<1>3. run \in Runs /\ used \in Budgets /\ lifetime \in Nat \ {0}
  BY ResetConstants DEF ResetInit, Runs, Budgets, RunLabels
<1> QED
  BY <1>1, <1>2, <1>3, ResetTypes

LEMMA ResetTypedNext ==
  ASSUME ResetTypeOK, FactoryStep PROVE ResetTypeOK'
<1>t. /\ journal \in Journals /\ fence \in [Fences -> FenceRecords] /\ domain \in [Domains -> 0 .. lifetime]
      /\ run \in Runs /\ used \in Budgets /\ lifetime \in Nat \ {0}
  BY ResetTypes
<1>g. journal.gen \in 0 .. MaxGeneration /\ run.gen \in 0 .. MaxGeneration
  BY <1>t DEF Journals, Runs
<1>1. CASE PowerOn \/ Inspect \/ ResumeNothing \/ Restart
  <2>1. run' \in Runs
    BY <1>1, <1>t, GoesToIsRun DEF PowerOn, Inspect, ResumeNothing, Restart, RunLabels
  <2>2. UNCHANGED <<journal, fence, domain, used, lifetime>>
    BY <1>1 DEF PowerOn, Inspect, ResumeNothing, Restart
  <2> QED
    BY <2>1, <2>2, <1>t, ResetTypesNext
<1>2. CASE Quarantine
  <2>1. used' \in Budgets /\ run' \in Runs /\ UNCHANGED <<journal, fence, domain, lifetime>>
    BY <1>2, <1>t, FaultIsCounted, RecoveryIsRun DEF Quarantine, StopsInRecovery
  <2> QED
    BY <2>1, <1>t, ResetTypesNext
<1>n. ASSUME NextFence PROVE run' \in Runs
  <2>1. CASE run.i < FenceCount
    <3>1. run.i + 1 \in Domains \cup Fences
      BY <1>t, <2>1, ResetConstants DEF Runs, Fences, Domains
    <3>2. run' = [run EXCEPT !.i = run.i + 1]
      BY <1>n, <2>1 DEF NextFence
    <3> QED
      BY <3>1, <3>2, <1>t DEF Runs
  <2>2. CASE ~(run.i < FenceCount)
    BY <1>n, <2>2, <1>t, ResetConstants DEF NextFence, Runs, RunLabels
  <2> QED
    BY <2>1, <2>2
<1>3. CASE ArmSkips
  BY <1>3, <1>n, <1>t, ResetTypesNext DEF ArmSkips
<1>4. ASSUME NEW out \in Outcomes, ResumeCleans(out) PROVE ResetTypeOK'
  <2>1. used' \in Budgets
    BY <1>4, <1>t, HappeningIsCounted DEF ResumeCleans
  <2>2. run' \in Runs
    BY <1>4, <1>t, GoesToIsRun, RecoveryIsRun DEF ResumeCleans, StopsInRecovery, RunLabels
  <2>3. journal' \in Journals
    BY <1>4, <1>t, ResetConstants DEF ResumeCleans, NoEntry, Journals
  <2> QED
    BY <1>4, <2>1, <2>2, <2>3, <1>t, ResetTypesNext DEF ResumeCleans
<1>5. ASSUME NEW out \in Outcomes, ResumeReplays(out) PROVE ResetTypeOK'
  <2>1. used' \in Budgets
    BY <1>5, <1>t, HappeningIsCounted DEF ResumeReplays
  <2>2. [pc |-> "arm", i |-> 1, gen |-> journal.gen] \in Runs
    BY <1>g, ResetConstants DEF Runs, RunLabels
  <2>3. run' \in Runs
    BY <1>5, <2>2, RecoveryIsRun DEF ResumeReplays, StopsInRecovery
  <2>4. journal' \in Journals
    BY <1>5, <1>t, <1>g, EntryIsJournal DEF ResumeReplays
  <2> QED
    BY <1>5, <2>1, <2>3, <2>4, <1>t, ResetTypesNext DEF ResumeReplays
<1>6. ASSUME NEW out \in Outcomes, Arm(out) PROVE ResetTypeOK'
  <2>1. used' \in Budgets
    BY <1>6, <1>t, HappeningIsCounted DEF Arm
  <2>2. run' \in Runs
    BY <1>6, <1>n, RecoveryIsRun DEF Arm, StopsInRecovery
  <2>3. [gen |-> run.gen, active |-> TRUE, ok |-> TRUE] \in FenceRecords
    BY <1>g DEF FenceRecords
  <2>4. fence' \in [Fences -> FenceRecords]
    BY <1>6, <2>3, <1>t DEF Arm
  <2> QED
    BY <1>6, <2>1, <2>2, <2>4, <1>t, ResetTypesNext DEF Arm
<1>7. ASSUME NEW out \in Outcomes, EraseDomain(out) PROVE ResetTypeOK'
  <2>1. used' \in Budgets
    BY <1>7, <1>t, HappeningIsCounted DEF EraseDomain
  <2>2. run' \in Runs
    BY <1>7, <1>t, GoesToIsRun DEF EraseDomain, RunLabels
  <2>3. domain' \in [Domains -> 0 .. lifetime]
    <3>1. domain' \in {[domain EXCEPT ![run.i] = 0], domain}
      BY <1>7 DEF EraseDomain
    <3>2. 0 \in 0 .. lifetime
      BY <1>t
    <3> QED
      BY <3>1, <3>2, <1>t
  <2> QED
    BY <1>7, <2>1, <2>2, <2>3, <1>t, ResetTypesNext DEF EraseDomain
<1>8. ASSUME NEW out \in Outcomes, NoteFailure(out) PROVE ResetTypeOK'
  <2>1. used' \in Budgets
    BY <1>8, <1>t, HappeningIsCounted DEF NoteFailure
  <2>2. journal' \in Journals
    BY <1>8, <1>t, <1>g, EntryIsJournal DEF NoteFailure
  <2> QED
    BY <1>8, <2>1, <2>2, <1>t, ResetTypesNext, RecoveryIsRun DEF NoteFailure, StopsInRecovery
<1>9. ASSUME NEW out \in Outcomes, Progress(out) PROVE ResetTypeOK'
  <2>1. used' \in Budgets
    BY <1>9, <1>t, HappeningIsCounted DEF Progress
  <2>2. journal' \in Journals
    BY <1>9, <1>t, <1>g, EntryIsJournal DEF Progress, Phase
  <2>3. [pc |-> "running", i |-> 1, gen |-> 0] \in Runs
    BY ResetConstants DEF Runs, RunLabels
  <2>4. run' \in Runs
    <3>1. CASE out = "ok" /\ run.i < DomainCount
      <4>1. run.i + 1 \in Domains
        BY <1>t, <3>1, ResetConstants DEF Runs, Domains, Fences
      <4>2. run' = [run EXCEPT !.pc = "erase", !.i = run.i + 1]
        BY <1>9, <3>1 DEF Progress
      <4> QED
        BY <4>1, <4>2, <1>t DEF Runs, RunLabels
    <3>2. CASE ~(out = "ok" /\ run.i < DomainCount)
      BY <1>9, <3>2, <2>3, RecoveryIsRun DEF Progress, StopsInRecovery
    <3> QED
      BY <3>1, <3>2
  <2> QED
    BY <1>9, <2>1, <2>2, <2>4, <1>t, ResetTypesNext DEF Progress
<1>10. CASE BootStep
  BY <1>1, <1>2, <1>3, <1>4, <1>5, <1>6, <1>7, <1>8, <1>9, <1>10 DEF BootStep
<1>d. domain \in [Domains -> 0 .. lifetime + 1] /\ lifetime + 1 \in Nat \ {0}
  BY <1>t
<1>11. ASSUME NEW out \in Outcomes, NEW found \in SUBSET Fences, Request(out) \/ Repair(found, out)
       PROVE  ResetTypeOK'
  <2>1. PICK g \in 1 .. MaxGeneration : Records(out, g)
    <3>1. CASE Request(out)
      BY <3>1, NextGenerationIsNew DEF Request
    <3>2. CASE Repair(found, out)
      BY <3>2, NextGenerationIsNew DEF Repair
    <3> QED
      BY <1>11, <3>1, <3>2
  <2>2. used' \in Budgets
    BY <1>11, <1>t, HappeningIsCounted, FaultIsCounted DEF Request, Repair
  <2>3. g \in 0 .. MaxGeneration
    BY ResetConstants
  <2>4. journal' \in Journals
    BY <2>1, <2>3, <1>t, EntryIsJournal DEF Records
  <2>5. lifetime' \in Nat \ {0} /\ domain' \in [Domains -> 0 .. lifetime']
    BY <1>11, <2>1, <1>t, <1>d DEF Records, Request, Repair
  <2>6. run' \in Runs
    BY <1>11, <1>t, GoesToIsRun DEF Request, Repair, RunLabels
  <2>7. fence' = fence
    BY <1>11 DEF Request, Repair
  <2> QED
    BY <2>2, <2>4, <2>5, <2>6, <2>7, <1>t, ResetTypesNext
<1>13. CASE RequestRefused
  <2>1. used' \in Budgets /\ run' \in Runs /\ UNCHANGED <<journal, fence, domain, lifetime>>
    BY <1>13, <1>t, FaultIsCounted, GoesToIsRun DEF RequestRefused, RunLabels
  <2> QED
    BY <2>1, <1>t, ResetTypesNext
<1>14. CASE SpoilJournal
  <2>1. used' \in Budgets /\ journal' \in Journals /\ UNCHANGED <<fence, domain, run, lifetime>>
    BY <1>14, <1>t, FaultIsCounted, EntryIsJournal, ResetConstants DEF SpoilJournal
  <2> QED
    BY <2>1, <1>t, ResetTypesNext
<1>15. ASSUME NEW s \in Fences, SpoilFence(s) PROVE ResetTypeOK'
  <2>1. used' \in Budgets /\ UNCHANGED <<journal, domain, run, lifetime>>
    BY <1>15, <1>t, FaultIsCounted DEF SpoilFence
  <2>2. fence' \in [Fences -> FenceRecords]
    BY <1>15, <1>t DEF SpoilFence, FenceRecords
  <2> QED
    BY <2>1, <2>2, <1>t, ResetTypesNext
<1>16. ASSUME NEW d \in Domains, SaveDomain(d) PROVE ResetTypeOK'
  <2>1. used' \in Budgets /\ UNCHANGED <<journal, fence, run, lifetime>>
    BY <1>16, <1>t, SaveIsCounted DEF SaveDomain
  <2>2. domain' \in [Domains -> 0 .. lifetime]
    BY <1>16, <1>t DEF SaveDomain
  <2> QED
    BY <2>1, <2>2, <1>t, ResetTypesNext
<1>17. CASE PowerCut
  <2>1. used' \in Budgets /\ UNCHANGED <<journal, fence, domain, lifetime>>
    BY <1>17, <1>t, ResetConstants DEF PowerCut, Budgets
  <2>2. run' \in Runs
    BY <1>17, ResetConstants DEF PowerCut, Runs, RunLabels
  <2> QED
    BY <2>1, <2>2, <1>t, ResetTypesNext
<1> QED
  BY <1>10, <1>11, <1>13, <1>14, <1>15, <1>16, <1>17 DEF FactoryStep

-----------------------------------------------------------------------------
(* The files on a card, and the operations on them.                        *)

(* The types of the card's variables, by name.                             *)
Ops == [pc : OpLabels, kind : {"none", "write", "erase", "new_write", "new_erase"},
        on : {"data", "marker"}, i : 1 .. 3, n : 0 .. MaxSaves + 1, live : BOOLEAN]

CardsAreTyped ==
  CardsTyped /\ mounted \in Cards /\ op \in Ops /\ wrote \in [Saves -> Nat] /\ current \in [Cards -> 0 .. MaxSaves + 1]

LEMMA CardTypes == CardTypeOK <=> ResetTypeOK /\ CardsAreTyped /\ blind \in BOOLEAN
BY DEF CardTypeOK, CardsAreTyped, CardsTyped, Contents, MarkerFiles, Ops

LEMMA CardTypesNext == CardTypeOK' <=> ResetTypeOK' /\ CardsAreTyped' /\ blind' \in BOOLEAN
BY DEF CardTypeOK, CardsAreTyped, CardsTyped, Contents, MarkerFiles, Ops

(* The files that a rename works on, and what may be set there.            *)
TargetOk(files) == IF op.on = "data" THEN files \in Contents ELSE files \in MarkerFiles

LEMMA TargetIsTyped ==
  ASSUME CardsTyped, mounted \in Cards, op \in Ops, NEW files, SetTarget(files), TargetOk(files)
  PROVE  CardsTyped'
<1>1. cards' = [cards EXCEPT ![mounted][op.on] = files]
  BY DEF SetTarget
<1>2. CASE op.on = "data"
  <2>1. files \in Contents
    BY <1>2 DEF TargetOk
  <2> QED
    BY <1>1, <1>2, <2>1 DEF CardsTyped, Contents, MarkerFiles
<1>3. CASE op.on = "marker"
  <2>1. files \in MarkerFiles
    BY <1>3 DEF TargetOk
  <2> QED
    BY <1>1, <1>3, <2>1 DEF CardsTyped, Contents, MarkerFiles
<1> QED
  BY <1>2, <1>3 DEF Ops

LEMMA TheTarget ==
  ASSUME CardsTyped, mounted \in Cards, op \in Ops
  PROVE  /\ TargetOk(Target) /\ Target \in [Files -> Nat]
         /\ op.on = "data" => Target = cards[mounted].data
         /\ op.on = "marker" => Target = cards[mounted].marker
         /\ op.on \in {"data", "marker"}
<1>1. CASE op.on = "data"
  BY <1>1, ResetConstants DEF CardsTyped, Target, TargetOk, Contents
<1>2. CASE op.on = "marker"
  BY <1>2, ResetConstants DEF CardsTyped, Target, TargetOk, MarkerFiles
<1> QED
  BY <1>1, <1>2 DEF Ops

LEMMA PutSets ==
  ASSUME Put PROVE SetTarget([Target EXCEPT !["tmp"] = Written])
BY DEF Put, SetTarget, Target

(* A file set made of the files there, and of nothing else, is one of the  *)
(* right type.                                                             *)
LEMMA RewrittenOk ==
  ASSUME CardsTyped, mounted \in Cards, op \in Ops, NEW files \in [Files -> Nat],
         \A f \in Files : files[f] = 0 \/ \E g \in Files : files[f] = Target[g]
  PROVE  TargetOk(files)
<1>1. CASE op.on = "data"
  <2>1. Target \in Contents
    BY <1>1, TheTarget DEF TargetOk
  <2>2. \A f \in Files : files[f] \in 0 .. MaxSaves + 1
    BY <2>1, ResetConstants DEF Contents
  <2>3. files \in Contents
    BY <2>2 DEF Contents
  <2> QED
    BY <1>1, <2>3 DEF TargetOk
<1>2. CASE op.on # "data"
  <2>1. Target \in MarkerFiles
    BY <1>2, TheTarget DEF TargetOk
  <2>2. \A f \in Files : files[f] \in 0 .. MaxGeneration
    BY <2>1, ResetConstants DEF MarkerFiles
  <2>3. files \in MarkerFiles
    BY <2>2 DEF MarkerFiles
  <2> QED
    BY <1>2, <2>3 DEF TargetOk
<1> QED
  BY <1>1, <1>2

(* What each step of the rename makes of the three files. *)
BecomesTarget(bin, bak, tmp) ==
  \E files \in [Files -> Nat] :
    /\ SetTarget(files)
    /\ files["bin"] = bin /\ files["bak"] = bak /\ files["tmp"] = tmp

LEMMA RenameSteps ==
  ASSUME CardsTyped, mounted \in Cards, op \in Ops
  PROVE  /\ RenamePlain => BecomesTarget(Target["tmp"], Target["bak"], 0)
         /\ RenameDropsBackup => BecomesTarget(Target["bin"], 0, Target["tmp"])
         /\ RenameAside => BecomesTarget(0, Target["bin"], Target["tmp"])
         /\ RenameCommits => BecomesTarget(Target["tmp"], Target["bak"], 0)
         /\ RenameGoesBack => BecomesTarget(Target["bak"], 0, Target["tmp"])
         /\ RenameTidies => BecomesTarget(Target["bin"], 0, Target["tmp"])
<1>1. Target \in [Files -> Nat] /\ Files = {"bin", "bak", "tmp"}
  BY TheTarget DEF Files
<1>a. ASSUME NEW bin \in Nat, NEW bak \in Nat, NEW tmp \in Nat, NEW files \in [Files -> Nat],
             SetTarget(files), files["bin"] = bin, files["bak"] = bak, files["tmp"] = tmp
      PROVE  BecomesTarget(bin, bak, tmp)
  BY <1>a DEF BecomesTarget
<1>b. Target["bin"] \in Nat /\ Target["bak"] \in Nat /\ Target["tmp"] \in Nat
  BY <1>1
<1>2. ASSUME RenamePlain \/ RenameCommits PROVE BecomesTarget(Target["tmp"], Target["bak"], 0)
  <2> DEFINE files == [Target EXCEPT !["bin"] = Target["tmp"], !["tmp"] = 0]
  <2>1. files \in [Files -> Nat] /\ files["bin"] = Target["tmp"] /\ files["bak"] = Target["bak"] /\ files["tmp"] = 0
    BY <1>1
  <2>2. SetTarget(files)
    BY <1>2 DEF RenamePlain, RenameCommits, Commits, Replaced
  <2> HIDE DEF files
  <2> QED
    BY <2>1, <2>2, <1>a, <1>b
<1>3. ASSUME RenameDropsBackup \/ RenameTidies PROVE BecomesTarget(Target["bin"], 0, Target["tmp"])
  <2> DEFINE files == [Target EXCEPT !["bak"] = 0]
  <2>1. files \in [Files -> Nat] /\ files["bin"] = Target["bin"] /\ files["bak"] = 0 /\ files["tmp"] = Target["tmp"]
    BY <1>1
  <2>2. SetTarget(files)
    BY <1>3 DEF RenameDropsBackup, RenameTidies
  <2> HIDE DEF files
  <2> QED
    BY <2>1, <2>2, <1>a, <1>b
<1>4. ASSUME RenameAside PROVE BecomesTarget(0, Target["bin"], Target["tmp"])
  <2> DEFINE files == [Target EXCEPT !["bak"] = Target["bin"], !["bin"] = 0]
  <2>1. files \in [Files -> Nat] /\ files["bin"] = 0 /\ files["bak"] = Target["bin"] /\ files["tmp"] = Target["tmp"]
    BY <1>1
  <2>2. SetTarget(files)
    BY <1>4 DEF RenameAside
  <2> HIDE DEF files
  <2> QED
    BY <2>1, <2>2, <1>a, <1>b
<1>5. ASSUME RenameGoesBack PROVE BecomesTarget(Target["bak"], 0, Target["tmp"])
  <2> DEFINE files == [Target EXCEPT !["bin"] = Target["bak"], !["bak"] = 0]
  <2>1. files \in [Files -> Nat] /\ files["bin"] = Target["bak"] /\ files["bak"] = 0 /\ files["tmp"] = Target["tmp"]
    BY <1>1
  <2>2. SetTarget(files)
    BY <1>5 DEF RenameGoesBack
  <2> HIDE DEF files
  <2> QED
    BY <2>1, <2>2, <1>a, <1>b
<1> QED
  BY <1>2, <1>3, <1>4, <1>5

(* After the step the three files are these, everything else is as before. *)
NowIs(bin, bak, tmp) ==
  /\ \A c \in Cards \ {mounted} : cards'[c] = cards[c]
  /\ op.on = "data" =>
       /\ cards'[mounted].marker = cards[mounted].marker
       /\ cards'[mounted].data["bin"] = bin /\ cards'[mounted].data["bak"] = bak
       /\ cards'[mounted].data["tmp"] = tmp
  /\ op.on = "marker" =>
       /\ cards'[mounted].data = cards[mounted].data
       /\ cards'[mounted].marker["bin"] = bin /\ cards'[mounted].marker["bak"] = bak
       /\ cards'[mounted].marker["tmp"] = tmp

(* The steps of rename_replace_preserving_old, of the write and of the     *)
(* erase, file by file.                                                    *)
LEMMA RewriteIsTyped ==
  ASSUME CardsTyped, mounted \in Cards, op \in Ops,
         NEW bin \in {0} \cup {Target[f] : f \in Files}, NEW bak \in {0} \cup {Target[f] : f \in Files},
         NEW tmp \in {0} \cup {Target[f] : f \in Files},
         BecomesTarget(bin, bak, tmp)
  PROVE  CardsTyped' /\ NowIs(bin, bak, tmp)
<1>1. PICK files \in [Files -> Nat] :
        SetTarget(files) /\ files["bin"] = bin /\ files["bak"] = bak /\ files["tmp"] = tmp
  BY DEF BecomesTarget
<1>2. \A f \in Files : files[f] = 0 \/ \E g \in Files : files[f] = Target[g]
  BY <1>1 DEF Files
<1>3. CardsTyped'
  BY <1>1, <1>2, RewrittenOk, TargetIsTyped
<1>4. NowIs(bin, bak, tmp)
  BY <1>1, TargetIsSet DEF NowIs, Ops
<1> QED
  BY <1>3, <1>4

LEMMA RenamesAreTyped ==
  ASSUME CardsTyped, mounted \in Cards, op \in Ops
  PROVE  /\ RenamePlain => CardsTyped' /\ NowIs(Target["tmp"], Target["bak"], 0)
         /\ RenameDropsBackup => CardsTyped' /\ NowIs(Target["bin"], 0, Target["tmp"])
         /\ RenameAside => CardsTyped' /\ NowIs(0, Target["bin"], Target["tmp"])
         /\ RenameCommits => CardsTyped' /\ NowIs(Target["tmp"], Target["bak"], 0)
         /\ RenameGoesBack => CardsTyped' /\ NowIs(Target["bak"], 0, Target["tmp"])
         /\ RenameTidies => CardsTyped' /\ NowIs(Target["bin"], 0, Target["tmp"])
<1> DEFINE V == {0} \cup {Target[f] : f \in Files}
<1>1. Target["bin"] \in V /\ Target["bak"] \in V /\ Target["tmp"] \in V /\ 0 \in V
  BY DEF Files
<1>2. ASSUME NEW bin \in V, NEW bak \in V, NEW tmp \in V, BecomesTarget(bin, bak, tmp)
      PROVE  CardsTyped' /\ NowIs(bin, bak, tmp)
  BY <1>2, RewriteIsTyped
<1> HIDE DEF V
<1>3. RenamePlain => CardsTyped' /\ NowIs(Target["tmp"], Target["bak"], 0)
  BY <1>1, <1>2, RenameSteps
<1>4. RenameDropsBackup => CardsTyped' /\ NowIs(Target["bin"], 0, Target["tmp"])
  BY <1>1, <1>2, RenameSteps
<1>5. RenameAside => CardsTyped' /\ NowIs(0, Target["bin"], Target["tmp"])
  BY <1>1, <1>2, RenameSteps
<1>6. RenameCommits => CardsTyped' /\ NowIs(Target["tmp"], Target["bak"], 0)
  BY <1>1, <1>2, RenameSteps
<1>7. RenameGoesBack => CardsTyped' /\ NowIs(Target["bak"], 0, Target["tmp"])
  BY <1>1, <1>2, RenameSteps
<1>8. RenameTidies => CardsTyped' /\ NowIs(Target["bin"], 0, Target["tmp"])
  BY <1>1, <1>2, RenameSteps
<1> QED
  BY <1>3, <1>4, <1>5, <1>6, <1>7, <1>8

LEMMA PutIsTyped ==
  ASSUME CardsTyped, ResetTypeOK, mounted \in Cards, op \in Ops, Put
  PROVE  CardsTyped' /\ NowIs(Target["bin"], Target["bak"], Written)
<1> DEFINE files == [Target EXCEPT !["tmp"] = Written]
<1>1. fence[Store].gen \in 0 .. MaxGeneration /\ op.n \in 0 .. MaxSaves + 1
  BY ResetConstants DEF ResetTypeOK, Ops
<1>2. TargetOk(files)
  <2>1. CASE op.on = "data"
    BY <2>1, <1>1, TheTarget DEF TargetOk, Written, Contents
  <2>2. CASE op.on # "data"
    BY <2>2, <1>1, TheTarget DEF TargetOk, Written, MarkerFiles
  <2> QED
    BY <2>1, <2>2
<1>3. SetTarget(files)
  BY PutSets
<1>4. files["bin"] = Target["bin"] /\ files["bak"] = Target["bak"] /\ files["tmp"] = Written
  BY TheTarget DEF Files
<1> HIDE DEF files
<1>5. NowIs(Target["bin"], Target["bak"], Written)
  BY <1>3, <1>4, TargetIsSet DEF NowIs, Ops
<1> QED
  BY <1>2, <1>3, <1>5, TargetIsTyped

LEMMA DeleteIsTyped ==
  ASSUME CardsTyped, mounted \in Cards, op \in Ops, Delete
  PROVE  /\ CardsTyped' /\ EraseOrder[op.i] \in Files
         /\ \A c \in Cards \ {mounted} : cards'[c] = cards[c]
         /\ cards'[mounted].marker = cards[mounted].marker
         /\ cards'[mounted].data[EraseOrder[op.i]] = 0
         /\ \A f \in Files \ {EraseOrder[op.i]} : cards'[mounted].data[f] = cards[mounted].data[f]
<1>1. cards' = [cards EXCEPT ![mounted].data[EraseOrder[op.i]] = 0]
  BY DEF Delete
<1>2. EraseOrder[op.i] \in Files
  BY DEF Ops, EraseOrder, Files
<1>3. 0 \in 0 .. MaxSaves + 1
  BY ResetConstants
<1> HIDE DEF EraseOrder
<1> QED
  BY <1>1, <1>2, <1>3 DEF CardsTyped, Contents, MarkerFiles

(* The steps that place a file: put and the rename. What kind of operation *)
(* is at which step.                                                       *)
Placing == {"put", "rename", "aside", "commit", "tidy"}

KindInv ==
  /\ op.pc = "lineage" => op.kind \in {"write", "erase"} /\ op.on = "data" /\ op.i = 1
  /\ op.pc = "delete" => op.kind \in {"erase", "new_write", "new_erase"} /\ op.on = "data"
  /\ op.pc \in Placing =>
       IF op.on = "data" THEN op.kind \in {"write", "new_write"} ELSE op.kind \in {"new_write", "new_erase"}

OpSame == op'.kind = op.kind /\ op'.i = op.i /\ op'.n = op.n /\ op'.live = op.live

(* How an operation goes on, label by label.                               *)
LEMMA IdleIsOp ==
  IdleOp \in Ops /\ IdleOp.pc = "idle" /\ ~IdleOp.live /\ IdleOp.on = "data" /\ IdleOp.i = 1 /\ IdleOp.kind = "none"
BY ResetConstants DEF IdleOp, Ops, OpLabels

LEMMA OpGoesTo ==
  ASSUME op \in Ops, NEW l \in OpLabels, OpGoes(l)
  PROVE  op' \in Ops /\ op'.pc = l /\ op'.on = op.on /\ OpSame
BY DEF OpGoes, Ops, OpSame

LEMMA OpAfterLineage ==
  ASSUME op \in Ops, KindInv, Lineage
  PROVE  /\ op' \in Ops /\ op.pc = "lineage" /\ op'.i = 1 /\ op'.n = op.n /\ op'.live = op.live /\ op'.on = "data"
         /\ \/ /\ ~Admitted(mounted) /\ op'.pc = "delete"
               /\ IF op.kind = "write" THEN op'.kind = "new_write" ELSE op'.kind = "new_erase"
            \/ /\ Admitted(mounted) /\ op'.kind = op.kind
               /\ IF op.kind = "write" THEN op'.pc = "put" ELSE op'.pc = "delete" /\ op'.kind = "erase"
<1>1. op.pc = "lineage" /\ op.kind \in {"write", "erase"} /\ op.on = "data" /\ op.i = 1
  BY DEF Lineage, OpAt, KindInv
<1>2. CASE ~Admitted(mounted)
  <2>1. op' = [op EXCEPT !.pc = "delete", !.kind = OnNewCard(op.kind)]
    BY <1>2 DEF Lineage
  <2> QED
    BY <1>1, <1>2, <2>1 DEF Ops, OpLabels, OnNewCard
<1>3. CASE Admitted(mounted)
  <2>1. op' = [op EXCEPT !.pc = IF op.kind = "write" THEN "put" ELSE "delete"]
    BY <1>3 DEF Lineage
  <2>2. CASE op.kind = "write"
    BY <1>1, <1>3, <2>1, <2>2 DEF Ops, OpLabels
  <2>3. CASE op.kind = "erase"
    BY <1>1, <1>3, <2>1, <2>3 DEF Ops, OpLabels
  <2> QED
    BY <1>1, <2>2, <2>3
<1> QED
  BY <1>2, <1>3

LEMMA OpAfterDelete ==
  ASSUME op \in Ops, KindInv, Delete
  PROVE  /\ op' \in Ops /\ op.pc = "delete" /\ op.on = "data" /\ op.live
         /\ \/ op' = IdleOp
            \/ /\ op.i < 3 /\ op'.pc = "delete" /\ op'.i = op.i + 1 /\ op'.on = "data"
               /\ op'.kind = op.kind /\ op'.n = op.n /\ op'.live
            \/ /\ op.i = 3 /\ op'.pc = "put" /\ OpSame
               /\ \/ op.kind = "new_write" /\ op'.on = "data"
                  \/ op.kind = "new_erase" /\ op'.on = "marker"
<1>1. op.pc = "delete" /\ op.kind \in {"erase", "new_write", "new_erase"} /\ op.on = "data" /\ op.live
  BY DEF Delete, OpAt, KindInv, SameBackend
<1>2. op' = IdleOp \/ op' = NextAfterDelete
  BY DEF Delete, OpReturns
<1>3. CASE op' = IdleOp
  BY <1>1, <1>3, IdleIsOp
<1>4. CASE op' = NextAfterDelete /\ op.i < 3
  <2>1. op' = [op EXCEPT !.i = op.i + 1]
    BY <1>4 DEF NextAfterDelete
  <2> QED
    BY <1>1, <1>4, <2>1 DEF Ops, OpLabels
<1>5. CASE op' = NextAfterDelete /\ op.i = 3
  <2>1. CASE op.kind = "erase"
    BY <1>1, <1>5, <2>1, IdleIsOp DEF NextAfterDelete
  <2>2. CASE op.kind = "new_write"
    <3>1. op' = [op EXCEPT !.pc = "put"]
      BY <1>5, <2>2 DEF NextAfterDelete
    <3> QED
      BY <1>1, <1>5, <2>2, <3>1 DEF Ops, OpLabels, OpSame
  <2>3. CASE op.kind = "new_erase"
    <3>1. op' = [op EXCEPT !.pc = "put", !.on = "marker"]
      BY <1>5, <2>3 DEF NextAfterDelete
    <3> QED
      BY <1>1, <1>5, <2>3, <3>1 DEF Ops, OpLabels, OpSame
  <2> QED
    BY <1>1, <2>1, <2>2, <2>3
<1> QED
  BY <1>2, <1>3, <1>4, <1>5 DEF Ops

LEMMA OpAfterCommit ==
  ASSUME op \in Ops, KindInv, op.pc \in Placing, op' = AfterCommit
  PROVE  /\ op' \in Ops
         /\ \/ op' = IdleOp
            \/ op.on = "data" /\ op.kind = "new_write" /\ op'.pc = "put" /\ op'.on = "marker" /\ OpSame
            \/ op.on = "marker" /\ op'.pc = "readback" /\ op'.on = "marker" /\ OpSame
<1>1. CASE op.on = "data" /\ op.kind = "write"
  BY <1>1, IdleIsOp DEF AfterCommit
<1>2. CASE op.on = "data" /\ op.kind = "new_write"
  <2>1. op' = [op EXCEPT !.pc = "put", !.on = "marker"]
    BY <1>2 DEF AfterCommit
  <2> QED
    BY <1>2, <2>1 DEF Ops, OpLabels, OpSame
<1>3. CASE op.on = "marker"
  <2>1. op' = [op EXCEPT !.pc = "readback"]
    BY <1>3 DEF AfterCommit
  <2> QED
    BY <1>3, <2>1 DEF Ops, OpLabels, OpSame
<1> QED
  BY <1>1, <1>2, <1>3 DEF KindInv, Ops

(* Steps that leave the cards or the reset alone keep their types.         *)
LEMMA CardsStandTyped ==
  ASSUME CardsAreTyped, UNCHANGED <<cards, mounted, wrote, current>>, op' \in Ops
  PROVE  CardsAreTyped'
BY DEF CardsAreTyped, CardsTyped

LEMMA ResetStandTyped ==
  ASSUME ResetTypeOK, UNCHANGED <<journal, fence, domain, run, lifetime>>, used' \in Budgets
  PROVE  ResetTypeOK'
BY ResetTypes, ResetTypesNext

LEMMA IdleHasKind ==
  ASSUME op' = IdleOp PROVE KindInv'
BY DEF KindInv, IdleOp, Placing

LEMMA GoingHasKind ==
  ASSUME op \in Ops, KindInv, op.pc \in Placing, NEW l \in {"rename", "aside", "commit", "tidy"}, OpGoes(l)
  PROVE  op' \in Ops /\ KindInv'
<1>1. op' \in Ops /\ op'.pc = l /\ op'.on = op.on /\ OpSame
  BY OpGoesTo DEF OpLabels
<1> QED
  BY <1>1 DEF KindInv, Placing, OpSame

LEMMA CommitHasKind ==
  ASSUME op \in Ops, KindInv, op.pc \in Placing, op' = AfterCommit
  PROVE  op' \in Ops /\ KindInv'
BY OpAfterCommit, IdleHasKind DEF KindInv, Placing, OpSame

(* Every step keeps the types, and the operations' kinds.                  *)
LEMMA CardTypedNext ==
  ASSUME CardTypeOK, KindInv, CardNext
  PROVE  CardTypeOK' /\ KindInv'
<1>t. /\ ResetTypeOK /\ CardsAreTyped /\ CardsTyped /\ mounted \in Cards /\ op \in Ops
      /\ wrote \in [Saves -> Nat] /\ current \in [Cards -> 0 .. MaxSaves + 1]
  BY CardTypes DEF CardsAreTyped
<1>u. used \in Budgets /\ lifetime \in Nat /\ used.saves \in 0 .. MaxSaves /\ fence \in [Fences -> FenceRecords]
  BY <1>t, ResetTypes DEF Budgets
<1>o. op.n \in 0 .. MaxSaves + 1
  BY <1>t DEF Ops
<1>b. blind' \in BOOLEAN
  BY CardTypes DEF CardNext, ResetStep, Cut, BeginWrite, BeginErase, OpStep, OpStops, Lineage, Delete, Put, RenamePlain,
     RenameDropsBackup, RenameAside, RenameCommits, RenameGoesBack, RenameTidies, ReadBack, ClearFence, Swap, ResetKept
<1>1. CASE ResetStep
  <2>1. FactoryStep /\ UNCHANGED <<cards, mounted, op, wrote, current>>
    BY <1>1 DEF ResetStep, FactoryStep, Outcomes
  <2>2. ResetTypeOK' /\ CardsAreTyped'
    BY <2>1, <1>t, ResetTypedNext, CardsStandTyped
  <2>3. KindInv'
    BY <2>1 DEF KindInv
  <2> QED
    BY <2>2, <2>3, CardTypesNext, <1>b
<1>2. CASE Cut
  <2>1. FactoryStep /\ op' = IdleOp /\ UNCHANGED <<cards, mounted, wrote, current>>
    BY <1>2 DEF Cut, FactoryStep
  <2>2. ResetTypeOK' /\ CardsAreTyped'
    BY <2>1, <1>t, IdleIsOp, ResetTypedNext, CardsStandTyped
  <2>3. KindInv'
    BY <2>1, IdleHasKind
  <2> QED
    BY <2>2, <2>3, CardTypesNext, <1>b
<1>3. CASE BeginWrite
  <2>1. used.saves + 2 \in Saves /\ used.saves + 2 \in 0 .. MaxSaves + 1
    BY <1>3, <1>u, ResetConstants DEF BeginWrite, ASave, Saves
  <2>2. used' \in Budgets
    BY <1>3, <1>u, SaveIsCounted DEF BeginWrite
  <2>3. /\ op' \in Ops /\ op'.pc = "lineage" /\ op'.kind = "write" /\ op'.on = "data" /\ op'.i = 1
    BY <1>3, <2>1, IdleIsOp DEF BeginWrite, Ops, OpLabels
  <2>4. wrote' \in [Saves -> Nat]
    BY <1>3, <2>1, <1>t, <1>u DEF BeginWrite
  <2>5. ResetTypeOK' /\ CardsAreTyped'
    BY <1>3, <2>2, <2>3, <2>4, <1>t, ResetStandTyped DEF BeginWrite, ResetKept, CardsKept, CardsAreTyped, CardsTyped
  <2>6. KindInv'
    BY <2>3 DEF KindInv, Placing
  <2> QED
    BY <2>5, <2>6, CardTypesNext, <1>b
<1>4. CASE BeginErase
  <2>1. used' \in Budgets
    BY <1>4, <1>u, SaveIsCounted DEF BeginErase
  <2>2. op' \in Ops /\ op'.pc = "lineage" /\ op'.kind = "erase" /\ op'.on = "data" /\ op'.i = 1
    BY <1>4, IdleIsOp DEF BeginErase, Ops, OpLabels
  <2>3. ResetTypeOK' /\ CardsAreTyped'
    BY <1>4, <2>1, <2>2, <1>t, ResetStandTyped, CardsStandTyped DEF BeginErase, ResetKept, CardsKept
  <2>4. KindInv'
    BY <2>2 DEF KindInv, Placing
  <2> QED
    BY <2>3, <2>4, CardTypesNext, <1>b
<1>5. CASE OpStops
  <2>1. used' \in Budgets /\ op' = IdleOp
    BY <1>5, <1>u, FaultIsCounted DEF OpStops, OpReturns
  <2>2. ResetTypeOK' /\ CardsAreTyped'
    BY <1>5, <2>1, <1>t, IdleIsOp, ResetStandTyped, CardsStandTyped DEF OpStops, ResetKept, CardsKept
  <2> QED
    BY <2>1, <2>2, CardTypesNext, <1>b, IdleHasKind
<1>6. CASE Lineage
  <2>1. op' \in Ops /\ KindInv'
    BY <1>6, <1>t, OpAfterLineage DEF KindInv, Placing
  <2>2. ResetTypeOK' /\ CardsAreTyped'
    BY <1>6, <2>1, <1>t, <1>u, ResetStandTyped, CardsStandTyped DEF Lineage, ResetKept, CardsKept
  <2> QED
    BY <2>1, <2>2, CardTypesNext, <1>b
<1>c. ASSUME CardsTyped', op' \in Ops, current' \in [Cards -> 0 .. MaxSaves + 1], used' \in Budgets,
             UNCHANGED <<journal, fence, domain, run, lifetime, mounted, wrote>>
      PROVE  CardTypeOK'
  BY <1>c, <1>t, ResetStandTyped, CardTypesNext, <1>b DEF CardsAreTyped
<1>7. CASE Delete
  <2>1. CardsTyped'
    BY <1>7, <1>t, DeleteIsTyped
  <2>2. op' \in Ops /\ KindInv'
    BY <1>7, <1>t, OpAfterDelete, IdleHasKind DEF KindInv, Placing, OpSame
  <2>3. current' \in [Cards -> 0 .. MaxSaves + 1]
    BY <1>7, <1>t, ResetConstants DEF Delete
  <2>4. used' \in Budgets
    BY <1>7, <1>u, FaultIsCounted DEF Delete
  <2> QED
    BY <1>7, <2>1, <2>2, <2>3, <2>4, <1>c DEF Delete, ResetKept
<1>8. CASE Put
  <2>1. CardsTyped'
    BY <1>8, <1>t, PutIsTyped
  <2>2. op' \in Ops /\ KindInv'
    BY <1>8, <1>t, GoingHasKind DEF Put, OpAt, Placing
  <2> QED
    BY <1>8, <2>1, <2>2, <1>t, <1>u, <1>c DEF Put, ResetKept
<1>9. CASE RenamePlain
  <2>1. CardsTyped'
    BY <1>9, <1>t, RenamesAreTyped
  <2>2. op' \in Ops /\ KindInv'
    BY <1>9, <1>t, CommitHasKind DEF RenamePlain, OpAt, Placing
  <2>3. current' \in [Cards -> 0 .. MaxSaves + 1]
    BY <1>9, <1>t, <1>o DEF RenamePlain, Commits
  <2> QED
    BY <1>9, <2>1, <2>2, <2>3, <1>u, <1>c DEF RenamePlain, ResetKept
<1>10. CASE RenameCommits
  <2>1. CardsTyped'
    BY <1>10, <1>t, RenamesAreTyped
  <2>2. op' \in Ops /\ KindInv'
    BY <1>10, <1>t, GoingHasKind DEF RenameCommits, OpAt, Placing
  <2>3. current' \in [Cards -> 0 .. MaxSaves + 1]
    BY <1>10, <1>t, <1>o DEF RenameCommits, Commits
  <2> QED
    BY <1>10, <2>1, <2>2, <2>3, <1>u, <1>c DEF RenameCommits, ResetKept
<1>11. CASE RenameDropsBackup \/ RenameAside
  <2>1. CardsTyped'
    BY <1>11, <1>t, RenamesAreTyped
  <2>2. op' \in Ops /\ KindInv'
    BY <1>11, <1>t, GoingHasKind DEF RenameDropsBackup, RenameAside, OpAt, Placing
  <2> QED
    BY <1>11, <2>1, <2>2, <1>t, <1>u, <1>c DEF RenameDropsBackup, RenameAside, ResetKept
<1>12. CASE RenameGoesBack
  <2>1. CardsTyped' /\ used' \in Budgets
    BY <1>12, <1>t, <1>u, RenamesAreTyped, FaultIsCounted DEF RenameGoesBack
  <2>2. op' \in Ops /\ KindInv'
    BY <1>12, IdleIsOp, IdleHasKind DEF RenameGoesBack, OpReturns
  <2> QED
    BY <1>12, <2>1, <2>2, <1>t, <1>c DEF RenameGoesBack, ResetKept
<1>13. CASE RenameTidies
  <2>1. CardsTyped'
    BY <1>13, <1>t, RenamesAreTyped
  <2>2. op' \in Ops /\ KindInv'
    BY <1>13, <1>t, CommitHasKind DEF RenameTidies, OpAt, Placing
  <2> QED
    BY <1>13, <2>1, <2>2, <1>t, <1>u, <1>c DEF RenameTidies, ResetKept
<1>14. CASE ReadBack
  <2>1. op' = IdleOp \/ (op'.pc = "clear" /\ op' \in Ops)
    <3>1. op' = IdleOp \/ op' = [op EXCEPT !.pc = "clear"]
      BY <1>14 DEF ReadBack
    <3> QED
      BY <3>1, <1>t DEF Ops, OpLabels
  <2>2. op' \in Ops /\ KindInv'
    BY <2>1, IdleIsOp, IdleHasKind DEF KindInv, Placing
  <2>3. ResetTypeOK' /\ CardsAreTyped'
    BY <1>14, <2>2, <1>t, <1>u, ResetStandTyped, CardsStandTyped DEF ReadBack, ResetKept, CardsKept
  <2> QED
    BY <2>2, <2>3, CardTypesNext, <1>b
<1>15. CASE ClearFence
  <2>1. used' \in Budgets /\ op' = IdleOp
    BY <1>15, <1>u, HappeningIsCounted DEF ClearFence, OpReturns
  <2>2. fence' \in [Fences -> FenceRecords]
    BY <1>15, <1>u DEF ClearFence, FenceRecords
  <2>3. ResetTypeOK'
    BY <1>15, <2>1, <2>2, <1>t, ResetTypes, ResetTypesNext DEF ClearFence
  <2>4. CardsAreTyped'
    BY <1>15, <2>1, <1>t, IdleIsOp, CardsStandTyped DEF ClearFence, CardsKept
  <2> QED
    BY <2>1, <2>3, <2>4, CardTypesNext, <1>b, IdleHasKind
<1>16. CASE \E c \in Cards : Swap(c)
  <2>1. PICK c \in Cards : Swap(c)
    BY <1>16
  <2>2. /\ op' \in Ops /\ op'.pc = op.pc /\ op'.kind = op.kind /\ op'.on = op.on /\ op'.i = op.i
    BY <2>1, <1>t DEF Swap, Ops
  <2>3. KindInv'
    BY <2>2 DEF KindInv
  <2>4. ResetTypeOK' /\ CardsAreTyped'
    BY <2>1, <2>2, <1>t, <1>u, ResetStandTyped DEF Swap, ResetKept, CardsKept, CardsAreTyped, CardsTyped
  <2> QED
    BY <2>3, <2>4, CardTypesNext, <1>b
<1> QED
  BY <1>1, <1>2, <1>3, <1>4, <1>5, <1>6, <1>7, <1>8, <1>9, <1>10, <1>11, <1>12, <1>13, <1>14, <1>15, <1>16
     DEF CardNext, OpStep

-----------------------------------------------------------------------------
(* What a read of a card finds.                                            *)

(* What the files are at each step of a live operation: the backup is gone *)
(* before the primary is removed, the temporary file holds the save until  *)
(* it is renamed, and the rename finds the primary only where it left it.  *)
OpFiles ==
  /\ op.pc # "idle" => AtPc("running")
  /\ op.live =>
       /\ op.pc = "delete" /\ op.i > 1 => cards[mounted].data["bak"] = 0
       /\ op.pc \in {"rename", "aside", "commit"} /\ op.on = "data" => cards[mounted].data["tmp"] = op.n
       /\ op.pc \in {"aside", "tidy"} => Target["bin"] # 0
       /\ op.pc = "commit" => Target["bin"] = 0

(* The files under the rename after a step.                                *)
LEMMA NowTarget ==
  ASSUME op \in Ops, op'.on = op.on, mounted' = mounted, NEW bin, NEW bak, NEW tmp, NowIs(bin, bak, tmp)
  PROVE  Target'["bin"] = bin /\ Target'["bak"] = bak /\ Target'["tmp"] = tmp
<1>1. Target' = cards'[mounted][op.on]
  BY DEF Target
<1>2. CASE op.on = "data"
  <2>1. Target' = cards'[mounted].data
    BY <1>1, <1>2
  <2> QED
    BY <1>2, <2>1 DEF NowIs
<1>3. CASE op.on = "marker"
  <2>1. Target' = cards'[mounted].marker
    BY <1>1, <1>3
  <2> QED
    BY <1>3, <2>1 DEF NowIs
<1> QED
  BY <1>2, <1>3 DEF Ops

(* While an operation is under way the reset can do nothing but save a     *)
(* domain.                                                                 *)
LEMMA ResetStepQuiet ==
  ASSUME ResetStep, AtPc("running"), op.pc # "idle"
  PROVE  UNCHANGED <<journal, fence, run, lifetime>>
BY DEF ResetStep, AtPc, BootStep, PowerOn, Quarantine, Inspect, ResumeNothing, ArmSkips, Restart,
       ResumeCleans, ResumeReplays, Arm, EraseDomain, NoteFailure, Progress, SpoilJournal, SpoilFence,
       SaveDomain

(* Every step leaves the files as the next one needs them.                 *)
LEMMA OpFilesNext ==
  ASSUME CardTypeOK, KindInv, OpFiles, CardNext
  PROVE  OpFiles'
<1>t. /\ ResetTypeOK /\ CardsTyped /\ mounted \in Cards /\ op \in Ops
  BY CardTypes DEF CardsAreTyped
<1>i. ASSUME op'.pc = "idle" PROVE OpFiles'
  BY <1>i DEF OpFiles
<1>j. ASSUME op' = IdleOp PROVE OpFiles'
  BY <1>j, <1>i, IdleIsOp
<1>1. CASE ResetStep
  <2>1. UNCHANGED <<cards, mounted, op>>
    BY <1>1 DEF ResetStep
  <2>2. CASE op.pc = "idle"
    BY <2>1, <2>2, <1>i
  <2>3. CASE op.pc # "idle"
    <3>1. UNCHANGED run
      BY <1>1, <2>3, ResetStepQuiet DEF OpFiles
    <3> QED
      BY <2>1, <3>1 DEF OpFiles, Target, AtPc
  <2> QED
    BY <2>2, <2>3
<1>2. CASE Cut \/ OpStops \/ RenameGoesBack \/ ClearFence
  BY <1>2, <1>j DEF Cut, OpStops, RenameGoesBack, ClearFence, OpReturns
<1>3. CASE BeginWrite \/ BeginErase
  <2>1. op'.pc = "lineage" /\ AtPc("running") /\ run' = run
    BY <1>3, IdleIsOp DEF BeginWrite, BeginErase, ResetKept, Ops, OpAt
  <2> QED
    BY <2>1 DEF OpFiles, AtPc
<1>4. CASE Lineage
  <2>1. op'.pc \in {"put", "delete"} /\ op'.i = 1 /\ AtPc("running") /\ run' = run
    BY <1>4, <1>t, OpAfterLineage DEF Lineage, ResetKept, OpAt
  <2> QED
    BY <2>1 DEF OpFiles, AtPc
<1>5. CASE Delete
  <2>1. AtPc("running") /\ run' = run /\ mounted' = mounted
    BY <1>5 DEF Delete, ResetKept, OpAt
  <2>2. CASE op' = IdleOp
    BY <2>2, <1>j
  <2>3. CASE op.i < 3 /\ op'.pc = "delete" /\ op'.i = op.i + 1
    <3>1. cards'[mounted].data["bak"] = 0
      <4>1. op.i \in 1 .. 3 /\ op.live /\ op.pc = "delete"
        BY <1>5, <1>t, OpAfterDelete DEF Ops
      <4>2. CASE op.i = 1
        BY <4>2, <1>5, <1>t, DeleteIsTyped DEF EraseOrder
      <4>3. CASE op.i = 2
        <5>1. cards[mounted].data["bak"] = 0 /\ EraseOrder[op.i] = "tmp" /\ "bak" \in Files
          BY <4>1, <4>3 DEF OpFiles, EraseOrder, Files
        <5> QED
          BY <5>1, <1>5, <1>t, DeleteIsTyped
      <4> QED
        BY <2>3, <4>1, <4>2, <4>3
    <3> QED
      BY <2>1, <2>3, <3>1 DEF OpFiles, AtPc
  <2>4. CASE op'.pc = "put"
    BY <2>1, <2>4 DEF OpFiles, AtPc
  <2> QED
    BY <1>5, <1>t, <2>2, <2>3, <2>4, OpAfterDelete
<1>6. CASE Put
  <2>1. op'.pc = "rename" /\ op'.on = op.on /\ OpSame /\ AtPc("running") /\ run' = run /\ mounted' = mounted
    BY <1>6, <1>t, OpGoesTo DEF Put, ResetKept, OpAt, OpLabels
  <2>2. op.on = "data" => cards'[mounted].data["tmp"] = op.n
    BY <1>6, <1>t, PutIsTyped DEF NowIs, Written
  <2> QED
    BY <2>1, <2>2 DEF OpFiles, AtPc, OpSame
<1>7. CASE RenamePlain
  <2>1. op.pc \in Placing /\ op' = AfterCommit /\ AtPc("running") /\ run' = run
    BY <1>7 DEF RenamePlain, ResetKept, OpAt, Placing
  <2>2. op' = IdleOp \/ op'.pc \in {"put", "readback"}
    BY <2>1, <1>t, OpAfterCommit
  <2> QED
    BY <2>1, <2>2, <1>j DEF OpFiles, AtPc
<1>8. CASE RenameTidies
  <2>1. op.pc \in Placing /\ op' = AfterCommit /\ AtPc("running") /\ run' = run
    BY <1>8 DEF RenameTidies, ResetKept, OpAt, Placing
  <2>2. op' = IdleOp \/ op'.pc \in {"put", "readback"}
    BY <2>1, <1>t, OpAfterCommit
  <2> QED
    BY <2>1, <2>2, <1>j DEF OpFiles, AtPc
<1>9. CASE RenameDropsBackup
  <2>1. /\ op'.pc = "aside" /\ op'.on = op.on /\ OpSame /\ AtPc("running") /\ run' = run /\ mounted' = mounted
        /\ op.pc = "rename" /\ op.live /\ Target["bin"] # 0
    BY <1>9, <1>t, OpGoesTo DEF RenameDropsBackup, ResetKept, OpAt, OpLabels, SameBackend
  <2>2. NowIs(Target["bin"], 0, Target["tmp"])
    BY <1>9, <1>t, RenamesAreTyped
  <2>3. Target'["bin"] # 0
    BY <2>1, <2>2, <1>t, NowTarget
  <2>4. op.on = "data" => cards'[mounted].data["tmp"] = op.n
    BY <2>1, <2>2, <1>t, TheTarget DEF NowIs, OpFiles
  <2> QED
    BY <2>1, <2>3, <2>4 DEF OpFiles, AtPc, OpSame
<1>10. CASE RenameAside
  <2>1. /\ op'.pc = "commit" /\ op'.on = op.on /\ OpSame /\ AtPc("running") /\ run' = run /\ mounted' = mounted
        /\ op.pc = "aside" /\ op.live
    BY <1>10, <1>t, OpGoesTo DEF RenameAside, ResetKept, OpAt, OpLabels, SameBackend
  <2>2. NowIs(0, Target["bin"], Target["tmp"])
    BY <1>10, <1>t, RenamesAreTyped
  <2>3. Target'["bin"] = 0
    BY <2>1, <2>2, <1>t, NowTarget
  <2>4. op.on = "data" => cards'[mounted].data["tmp"] = op.n
    BY <2>1, <2>2, <1>t, TheTarget DEF NowIs, OpFiles
  <2> QED
    BY <2>1, <2>3, <2>4 DEF OpFiles, AtPc, OpSame
<1>11. CASE RenameCommits
  <2>1. /\ op'.pc = "tidy" /\ op'.on = op.on /\ OpSame /\ AtPc("running") /\ run' = run /\ mounted' = mounted
        /\ op.live /\ Target["tmp"] # 0
    BY <1>11, <1>t, OpGoesTo DEF RenameCommits, ResetKept, OpAt, OpLabels, SameBackend
  <2>2. NowIs(Target["tmp"], Target["bak"], 0)
    BY <1>11, <1>t, RenamesAreTyped
  <2>3. Target'["bin"] # 0
    BY <2>1, <2>2, <1>t, NowTarget
  <2> QED
    BY <2>1, <2>3 DEF OpFiles, AtPc, OpSame
<1>12. CASE ReadBack
  <2>1. op' = IdleOp \/ op' = [op EXCEPT !.pc = "clear"]
    BY <1>12 DEF ReadBack
  <2>2. op' = IdleOp \/ op'.pc = "clear"
    BY <2>1, <1>t DEF Ops
  <2>3. AtPc("running") /\ run' = run
    BY <1>12 DEF ReadBack, OpAt, ResetKept
  <2> QED
    BY <2>2, <2>3, <1>j DEF OpFiles, AtPc
<1>13. CASE \E c \in Cards : Swap(c)
  <2>1. ~op'.live /\ AtPc("running") /\ run' = run
    BY <1>13, <1>t DEF Swap, ResetKept, Ops
  <2> QED
    BY <2>1 DEF OpFiles, AtPc
<1> QED
  BY <1>1, <1>2, <1>3, <1>4, <1>5, <1>6, <1>7, <1>8, <1>9, <1>10, <1>11, <1>12, <1>13 DEF CardNext, OpStep

(* What a read finds.                                                      *)
LEMMA CardReads ==
  ASSUME CardsTyped, NEW c \in Cards
  PROVE  Found(cards[c].data) = IF cards[c].data["bin"] # 0 THEN cards[c].data["bin"] ELSE cards[c].data["bak"]
BY DEF Found

(* Only a commit changes what a read of the data finds, and only to the    *)
(* save; a delete takes it away or leaves it.                              *)
LEMMA ReadsNext ==
  ASSUME CardTypeOK, KindInv, OpFiles, ReadsTheLastCommit, CardNext
  PROVE  ReadsTheLastCommit'
<1>t. /\ ResetTypeOK /\ CardsTyped /\ mounted \in Cards /\ op \in Ops /\ current \in [Cards -> 0 .. MaxSaves + 1]
  BY CardTypes DEF CardsAreTyped
<1>s. ASSUME UNCHANGED <<cards, current>> PROVE ReadsTheLastCommit'
  BY <1>s DEF ReadsTheLastCommit
<1>m. ASSUME \A c \in Cards \ {mounted} : cards'[c] = cards[c] /\ current'[c] = current[c],
             Found(cards'[mounted].data) = current'[mounted]
      PROVE  ReadsTheLastCommit'
  BY <1>m DEF ReadsTheLastCommit
<1>e. Found(cards[mounted].data) = current[mounted]
  BY <1>t DEF ReadsTheLastCommit
<1>1. CASE \/ ResetStep \/ Cut \/ BeginWrite \/ BeginErase \/ OpStops \/ Lineage \/ ReadBack \/ ClearFence
           \/ \E c \in Cards : Swap(c)
  BY <1>1, <1>s DEF ResetStep, Cut, BeginWrite, BeginErase, OpStops, Lineage, ReadBack, ClearFence, Swap, CardsKept
(* Nothing but the data counts. *)
<1>k. ASSUME op.on = "marker", NEW bin, NEW bak, NEW tmp, NowIs(bin, bak, tmp), UNCHANGED current
      PROVE  ReadsTheLastCommit'
  BY <1>k, <1>e, <1>m DEF NowIs
<1>d. ASSUME op.on = "data", NEW bin, NEW bak, NEW tmp, NowIs(bin, bak, tmp), UNCHANGED current,
             (IF bin # 0 THEN bin ELSE bak) = current[mounted]
      PROVE  ReadsTheLastCommit'
  <2>1. Found(cards'[mounted].data) = current[mounted]
    BY <1>d DEF NowIs, Found
  <2> QED
    BY <1>d, <2>1, <1>m DEF NowIs
<1>c. ASSUME op.on = "data", NEW bin, NEW bak, NEW tmp, NowIs(bin, bak, tmp), Commits, bin # 0, bin = op.n
      PROVE  ReadsTheLastCommit'
  <2>1. current' = [current EXCEPT ![mounted] = op.n]
    BY <1>c DEF Commits
  <2>2. Found(cards'[mounted].data) = op.n
    BY <1>c DEF NowIs, Found
  <2> QED
    BY <1>c, <2>1, <2>2, <1>m, <1>t DEF NowIs
<1>2. CASE Delete
  <2> DEFINE f == EraseOrder[op.i]
  <2>1. /\ CardsTyped' /\ f \in Files
        /\ \A c \in Cards \ {mounted} : cards'[c] = cards[c]
        /\ cards'[mounted].data[f] = 0
        /\ \A g \in Files \ {f} : cards'[mounted].data[g] = cards[mounted].data[g]
    BY <1>2, <1>t, DeleteIsTyped
  <2>2. current' = [current EXCEPT ![mounted] = IF Found(cards'[mounted].data) = 0 THEN 0 ELSE current[mounted]]
    BY <1>2 DEF Delete
  <2>3. Found(cards'[mounted].data) \in {0, Found(cards[mounted].data)}
    <3>0. op.pc = "delete" /\ op.live /\ op.i \in 1 .. 3
      BY <1>2, <1>t, OpAfterDelete DEF Ops
    <3>1. CASE op.i = 1
      <4>1. cards'[mounted].data["bak"] = 0 /\ cards'[mounted].data["bin"] = cards[mounted].data["bin"]
        BY <2>1, <3>1 DEF EraseOrder, Files
      <4> QED
        BY <4>1 DEF Found
    <3>2. CASE op.i = 2
      <4>1. /\ cards'[mounted].data["bak"] = cards[mounted].data["bak"]
            /\ cards'[mounted].data["bin"] = cards[mounted].data["bin"]
        BY <2>1, <3>2 DEF EraseOrder, Files
      <4> QED
        BY <4>1 DEF Found
    <3>3. CASE op.i = 3
      <4>1. cards[mounted].data["bak"] = 0
        BY <3>0, <3>3 DEF OpFiles
      <4>2. cards'[mounted].data["bin"] = 0 /\ cards'[mounted].data["bak"] = 0
        BY <2>1, <3>3, <4>1 DEF EraseOrder, Files
      <4> QED
        BY <4>2 DEF Found
    <3> QED
      BY <3>0, <3>1, <3>2, <3>3
  <2> HIDE DEF f
  <2>4. Found(cards'[mounted].data) = current'[mounted] /\ \A c \in Cards \ {mounted} : current'[c] = current[c]
    BY <2>2, <2>3, <1>e, <1>t
  <2> QED
    BY <2>1, <2>4, <1>m
<1>n. op.on \in {"data", "marker"} /\ (op.on = "data" => Target = cards[mounted].data)
  BY <1>t, TheTarget
<1>v. op.on = "data" => current[mounted] = (IF Target["bin"] # 0 THEN Target["bin"] ELSE Target["bak"])
  BY <1>e, <1>n DEF Found
<1>3. CASE Put
  <2>1. NowIs(Target["bin"], Target["bak"], Written) /\ current' = current
    BY <1>3, <1>t, PutIsTyped DEF Put
  <2> QED
    BY <2>1, <1>n, <1>v, <1>k, <1>d
<1>4. CASE RenamePlain
  <2>1. NowIs(Target["tmp"], Target["bak"], 0) /\ Commits /\ op.live /\ op.pc = "rename" /\ Target["tmp"] # 0
    BY <1>4, <1>t, RenamesAreTyped DEF RenamePlain, SameBackend, OpAt
  <2>2. CASE op.on = "data"
    <3>1. Target["tmp"] = op.n
      BY <2>1, <2>2, <1>n DEF OpFiles
    <3> QED
      BY <2>1, <2>2, <3>1, <1>c
  <2>3. CASE op.on = "marker"
    BY <2>1, <2>3, <1>k DEF Commits
  <2> QED
    BY <2>2, <2>3, <1>n
<1>5. CASE RenameCommits
  <2>1. NowIs(Target["tmp"], Target["bak"], 0) /\ Commits /\ op.live /\ op.pc = "commit" /\ Target["tmp"] # 0
    BY <1>5, <1>t, RenamesAreTyped DEF RenameCommits, SameBackend, OpAt
  <2>2. CASE op.on = "data"
    <3>1. Target["tmp"] = op.n
      BY <2>1, <2>2, <1>n DEF OpFiles
    <3> QED
      BY <2>1, <2>2, <3>1, <1>c
  <2>3. CASE op.on = "marker"
    BY <2>1, <2>3, <1>k DEF Commits
  <2> QED
    BY <2>2, <2>3, <1>n
<1>6. CASE RenameDropsBackup
  <2>1. NowIs(Target["bin"], 0, Target["tmp"]) /\ current' = current /\ Target["bin"] # 0
    BY <1>6, <1>t, RenamesAreTyped DEF RenameDropsBackup
  <2> QED
    BY <2>1, <1>n, <1>v, <1>k, <1>d
<1>7. CASE RenameAside
  <2>1. NowIs(0, Target["bin"], Target["tmp"]) /\ current' = current
    BY <1>7, <1>t, RenamesAreTyped DEF RenameAside
  <2>2. Target["bin"] # 0
    BY <1>7 DEF RenameAside, OpAt, SameBackend, OpFiles
  <2>3. op.on = "data" => (IF 0 # 0 THEN 0 ELSE Target["bin"]) = current[mounted]
    BY <2>2, <1>v
  <2> QED
    BY <2>1, <2>3, <1>n, <1>k, <1>d
<1>8. CASE RenameGoesBack
  <2>1. NowIs(Target["bak"], 0, Target["tmp"]) /\ current' = current
    BY <1>8, <1>t, RenamesAreTyped DEF RenameGoesBack
  <2>2. Target["bin"] = 0
    BY <1>8 DEF RenameGoesBack, OpAt, SameBackend, OpFiles
  <2>3. op.on = "data" => (IF Target["bak"] # 0 THEN Target["bak"] ELSE 0) = current[mounted]
    BY <2>2, <1>v
  <2> QED
    BY <2>1, <2>3, <1>n, <1>k, <1>d
<1>9. CASE RenameTidies
  <2>1. NowIs(Target["bin"], 0, Target["tmp"]) /\ current' = current
    BY <1>9, <1>t, RenamesAreTyped DEF RenameTidies
  <2>2. Target["bin"] # 0
    BY <1>9 DEF RenameTidies, OpAt, SameBackend, OpFiles
  <2>3. op.on = "data" => (IF Target["bin"] # 0 THEN Target["bin"] ELSE 0) = current[mounted]
    BY <2>2, <1>v
  <2> QED
    BY <2>1, <2>3, <1>n, <1>k, <1>d
<1> QED
  BY <1>1, <1>2, <1>3, <1>4, <1>5, <1>6, <1>7, <1>8, <1>9 DEF CardNext, OpStep

(* The invariant of the files.                                             *)
CardFilesInv == CardTypeOK /\ KindInv /\ OpFiles /\ ReadsTheLastCommit

(* It holds at first ...                                                   *)
LEMMA CardFilesInit == CardInit => CardFilesInv
<1> SUFFICES ASSUME CardInit PROVE CardFilesInv
  OBVIOUS
<1>1. ResetTypeOK
  BY ResetTypedInit DEF CardInit
<1>c. MaxSaves \in Nat /\ 0 \in 0 .. MaxGeneration
  BY ResetConstants
<1>2. NoFiles \in MarkerFiles /\ \A n \in {0, 1} : [NoFiles EXCEPT !["bin"] = n] \in Contents
  BY <1>c DEF NoFiles, MarkerFiles, Contents, Files
<1>3. CardsTyped
  <2>1. \A n \in {0, 1} :
          [data |-> [NoFiles EXCEPT !["bin"] = n], marker |-> NoFiles] \in [data : Contents, marker : MarkerFiles]
    BY <1>2
  <2>2. {[data |-> [NoFiles EXCEPT !["bin"] = n], marker |-> NoFiles] : n \in {0, 1}}
          \subseteq [data : Contents, marker : MarkerFiles]
    BY <2>1
  <2>3. cards \in [Cards -> {[data |-> [NoFiles EXCEPT !["bin"] = n], marker |-> NoFiles] : n \in {0, 1}}]
    BY DEF CardInit
  <2> QED
    BY <2>2, <2>3 DEF CardsTyped
<1>4. op \in Ops /\ op.pc = "idle"
  BY IdleIsOp DEF CardInit
<1>5. wrote \in [Saves -> Nat]
  BY DEF CardInit
<1>6. current \in [Cards -> 0 .. MaxSaves + 1]
  <2>1. \A c \in Cards : cards[c].data["bin"] \in 0 .. MaxSaves + 1
    BY <1>3 DEF CardsTyped, Contents, Files
  <2> QED
    BY <2>1 DEF CardInit
<1>7. CardTypeOK
  BY <1>1, <1>3, <1>4, <1>5, <1>6, CardTypes DEF CardsAreTyped, CardInit
<1>8. ReadsTheLastCommit
  <2> SUFFICES ASSUME NEW c \in Cards PROVE Found(cards[c].data) = current[c]
    BY DEF ReadsTheLastCommit
  <2>1. PICK n \in {0, 1} : cards[c] = [data |-> [NoFiles EXCEPT !["bin"] = n], marker |-> NoFiles]
    BY DEF CardInit
  <2>2. cards[c].data["bin"] = n /\ cards[c].data["bak"] = 0
    BY <2>1 DEF NoFiles, Files
  <2> QED
    BY <2>2 DEF CardInit, Found
<1>9. KindInv /\ OpFiles
  BY <1>4, IdleIsOp DEF KindInv, OpFiles, Placing, CardInit
<1> QED
  BY <1>7, <1>8, <1>9 DEF CardFilesInv

(* ... and is inductive.                                                   *)
LEMMA CardFilesNext == CardFilesInv /\ [CardNext]_cardVars => CardFilesInv'
<1> SUFFICES ASSUME CardFilesInv, [CardNext]_cardVars PROVE CardFilesInv'
  OBVIOUS
<1>1. CASE CardNext
  BY <1>1, CardTypedNext, OpFilesNext, ReadsNext DEF CardFilesInv
<1>2. CASE UNCHANGED cardVars
  <2>1. UNCHANGED <<journal, fence, domain, run, used, lifetime, cards, mounted, op, wrote, current, blind>>
    BY <1>2 DEF cardVars, resetVars
  <2>2. CardTypeOK'
    BY <2>1 DEF CardFilesInv, CardTypeOK, ResetTypeOK
  <2>3. KindInv' /\ OpFiles' /\ ReadsTheLastCommit'
    BY <2>1 DEF CardFilesInv, KindInv, OpFiles, ReadsTheLastCommit, Target, AtPc
  <2> QED
    BY <2>2, <2>3 DEF CardFilesInv
<1> QED
  BY <1>1, <1>2

(* The files of every card, wherever a swap, a fault or a power cut stops  *)
(* an operation of retained_blob_store.c or a step of the RP2040's         *)
(* replace.                                                                *)
THEOREM CardFilesInvariant == CardSpec => []CardFilesInv
BY CardFilesInit, CardFilesNext, PTL DEF CardSpec

(* A read of a card finds what was committed to it last: the old value or  *)
(* the new one, never an older one, and nothing after an erase             *)
(* (sd_read_blob against sd_write_blob_for_generation,                     *)
(* sd_erase_blob_for_generation and rename_replace_preserving_old).        *)
THEOREM ReadsTheLastCommitHolds == CardSpec => []ReadsTheLastCommit
<1>1. CardFilesInv => ReadsTheLastCommit
  BY DEF CardFilesInv
<1> QED
  BY <1>1, CardFilesInvariant, PTL

-----------------------------------------------------------------------------
(***************************************************************************)
(* The reset as a transaction.  A producer runs only when the entry is     *)
(* done with, and an entry that is being processed stays the one it is:    *)
(* the domains are behind the fences, both behind its generation.          *)
(***************************************************************************)
Quiet == journal.st \in {"ABSENT", "COMPLETE"}
Processing == run.pc \in {"arm", "erase", "note", "progress"}

JournalInv ==
  /\ AtPc("running") => Quiet
  /\ Processing => journal.st = "ACTIVE" /\ journal.gen = run.gen
  /\ run.pc \in {"erase", "note", "progress"} => run.i \in Domains /\ \A s \in Fences : fence[s].gen = run.gen
  /\ AtPc("arm") => run.i \in Fences /\ \A s \in Fences : s < run.i => fence[s].gen = run.gen

(* What a reset leaves of the domains, and what it has yet to erase.       *)
DomainInv ==
  /\ Quiet => \A d \in Domains : domain[d] \in {0, lifetime}
  /\ journal.st = "ACTIVE" => \A d \in Domains : domain[d] < lifetime
  /\ AtPc("erase") => \A d \in Domains : d < run.i => domain[d] = 0
  /\ AtPc("progress") => \A d \in Domains : d <= run.i => domain[d] = 0

(* Steps that leave the entry or the domains alone.                        *)
LEMMA JournalStands ==
  ASSUME JournalInv, UNCHANGED <<journal, run>>, \A s \in Fences : fence'[s].gen = fence[s].gen
  PROVE  JournalInv'
BY DEF JournalInv, Quiet, Processing, AtPc

LEMMA DomainsStand ==
  ASSUME DomainInv, UNCHANGED <<journal, run, domain, lifetime>>
  PROVE  DomainInv'
BY DEF DomainInv, Quiet, AtPc

(* Where nothing is being processed, the entry is all that matters.        *)
LEMMA ResetAtRest ==
  ASSUME JournalInv, DomainInv, run'.pc \in {"off", "inspect", "resume", "restart", "recovery"},
         UNCHANGED <<domain, lifetime>>, journal'.st = "ACTIVE" => journal.st = "ACTIVE", Quiet' => Quiet
  PROVE  JournalInv' /\ DomainInv'
BY DEF JournalInv, DomainInv, Processing, AtPc

(* Every step of the reset keeps the entry and the domains in step.        *)
LEMMA JournalNext ==
  ASSUME ResetTypeOK, JournalInv, DomainInv, FactoryStep
  PROVE  JournalInv' /\ DomainInv'
<1>t. /\ journal \in Journals /\ fence \in [Fences -> FenceRecords] /\ domain \in [Domains -> 0 .. lifetime]
      /\ run \in Runs /\ used \in Budgets /\ lifetime \in Nat \ {0}
  BY ResetTypes
<1>g. \A d \in Domains : domain[d] \in Nat /\ domain[d] <= lifetime
  BY <1>t
<1>r. [pc |-> "recovery", i |-> 1, gen |-> 0].pc = "recovery"
  OBVIOUS
<1>1. CASE PowerOn \/ Inspect \/ Restart
  <2>1. run'.pc \in {"inspect", "resume", "off"}
    BY <1>1, <1>t, GoesToIsRun DEF PowerOn, Inspect, Restart, RunLabels
  <2> QED
    BY <1>1, <2>1, ResetAtRest DEF PowerOn, Inspect, Restart, Quiet
<1>2. CASE Quarantine
  BY <1>2, ResetAtRest DEF Quarantine, StopsInRecovery, Quiet
<1>3. CASE ResumeNothing
  <2>1. run'.pc = "running" /\ journal.st = "ABSENT" /\ UNCHANGED <<journal, fence, domain, lifetime>>
    BY <1>3, <1>t, GoesToIsRun DEF ResumeNothing, RunLabels
  <2> QED
    BY <2>1 DEF JournalInv, DomainInv, Quiet, Processing, AtPc
<1>4. CASE ArmSkips
  <2>1. /\ AtPc("arm") /\ fence[run.i].gen = run.gen /\ run.i \in Fences /\ journal.st = "ACTIVE"
        /\ journal.gen = run.gen /\ UNCHANGED <<journal, fence, domain, lifetime>>
    BY <1>4 DEF ArmSkips, ArmedAlready, JournalInv, AtPc, Processing
  <2>2. CASE run.i < FenceCount
    <3>1. run' = [run EXCEPT !.i = run.i + 1]
      BY <1>4, <2>2 DEF ArmSkips, NextFence
    <3>2. run'.pc = "arm" /\ run'.i = run.i + 1 /\ run'.gen = run.gen /\ run'.i \in Fences
      BY <3>1, <2>1, <2>2, <1>t, ResetConstants DEF Runs, Fences, AtPc
    <3> QED
      BY <2>1, <3>2 DEF JournalInv, DomainInv, Quiet, Processing, AtPc, Fences
  <2>3. CASE ~(run.i < FenceCount)
    <3>1. run' = [run EXCEPT !.pc = "erase", !.i = 1]
      BY <1>4, <2>3 DEF ArmSkips, NextFence
    <3>2. run'.pc = "erase" /\ run'.i = 1 /\ run'.gen = run.gen
      BY <3>1, <1>t DEF Runs
    <3>3. \A s \in Fences : fence[s].gen = run.gen
      BY <2>1, <2>3, ResetConstants DEF JournalInv, AtPc, Fences
    <3> QED
      BY <2>1, <3>2, <3>3, ResetConstants DEF JournalInv, DomainInv, Quiet, Processing, AtPc, Domains
  <2> QED
    BY <2>2, <2>3
<1>5. ASSUME NEW out \in Outcomes, ResumeCleans(out) PROVE JournalInv' /\ DomainInv'
  <2>1. Quiet /\ Quiet' /\ UNCHANGED <<fence, domain, lifetime>>
    BY <1>5 DEF ResumeCleans, NoEntry, Quiet
  <2>2. run'.pc \in {"running", "recovery"}
    BY <1>5, <1>t, GoesToIsRun DEF ResumeCleans, StopsInRecovery, RunLabels
  <2> QED
    BY <2>1, <2>2 DEF JournalInv, DomainInv, Quiet, Processing, AtPc
<1>6. ASSUME NEW out \in Outcomes, ResumeReplays(out) PROVE JournalInv' /\ DomainInv'
  <2>1. journal.st = "ACTIVE" /\ UNCHANGED <<fence, domain, lifetime>>
    BY <1>6 DEF ResumeReplays, Replayed
  <2>2. journal'.st = "ACTIVE" /\ journal'.gen = journal.gen
    BY <1>6, <2>1 DEF ResumeReplays, Entry
  <2>3. run'.pc = "recovery" \/ (run'.pc = "arm" /\ run'.i = 1 /\ run'.gen = journal.gen)
    BY <1>6 DEF ResumeReplays, StopsInRecovery
  <2> QED
    BY <2>1, <2>2, <2>3, ResetConstants DEF JournalInv, DomainInv, Quiet, Processing, AtPc, Fences
<1>7. ASSUME NEW out \in Outcomes, Arm(out) PROVE JournalInv' /\ DomainInv'
  <2>1. /\ AtPc("arm") /\ run.i \in Fences /\ journal.st = "ACTIVE"
        /\ journal.gen = run.gen /\ UNCHANGED <<journal, domain, lifetime>>
    BY <1>7 DEF Arm, JournalInv, AtPc, Processing
  <2>2. CASE out # "ok"
    BY <1>7, <2>1, <2>2, ResetAtRest DEF Arm, StopsInRecovery, Quiet
  <2>3. CASE out = "ok"
    <3>1. fence'[run.i].gen = run.gen /\ \A s \in Fences \ {run.i} : fence'[s] = fence[s]
      BY <1>7, <2>1, <2>3, <1>t DEF Arm, Applied
    <3>2. CASE run.i < FenceCount
      <4>1. run' = [run EXCEPT !.i = run.i + 1]
        BY <1>7, <2>3, <3>2 DEF Arm, NextFence
      <4>2. run'.pc = "arm" /\ run'.i = run.i + 1 /\ run'.gen = run.gen /\ run'.i \in Fences
        BY <4>1, <2>1, <3>2, <1>t, ResetConstants DEF Runs, Fences, AtPc
      <4>3. \A s \in Fences : s < run'.i => fence'[s].gen = run'.gen
        BY <2>1, <3>1, <4>2, ResetConstants DEF JournalInv, AtPc, Fences
      <4> QED
        BY <2>1, <4>2, <4>3 DEF JournalInv, DomainInv, Quiet, Processing, AtPc
    <3>3. CASE ~(run.i < FenceCount)
      <4>1. run' = [run EXCEPT !.pc = "erase", !.i = 1]
        BY <1>7, <2>3, <3>3 DEF Arm, NextFence
      <4>2. run'.pc = "erase" /\ run'.i = 1 /\ run'.gen = run.gen
        BY <4>1, <1>t DEF Runs
      <4>3. \A s \in Fences : fence'[s].gen = run.gen
        BY <2>1, <3>1, <3>3, ResetConstants DEF JournalInv, AtPc, Fences
      <4> QED
        BY <2>1, <4>2, <4>3, ResetConstants DEF JournalInv, DomainInv, Quiet, Processing, AtPc, Domains
    <3> QED
      BY <3>2, <3>3
  <2> QED
    BY <2>2, <2>3

<1>8. ASSUME NEW out \in Outcomes, EraseDomain(out) PROVE JournalInv' /\ DomainInv'
  <2>1. /\ AtPc("erase") /\ run.i \in Domains /\ journal.st = "ACTIVE" /\ journal.gen = run.gen
        /\ (\A s \in Fences : fence[s].gen = run.gen) /\ UNCHANGED <<journal, fence, lifetime>>
    BY <1>8 DEF EraseDomain, JournalInv, AtPc, Processing
  <2>2. /\ run'.pc = (IF out = "ok" THEN "progress" ELSE "note") /\ run'.i = run.i /\ run'.gen = run.gen
    BY <1>8, <1>t, GoesToIsRun DEF EraseDomain, RunLabels
  <2>3. /\ \A d \in Domains : domain'[d] \in {0, domain[d]}
        /\ out = "ok" => domain'[run.i] = 0
    BY <1>8, <2>1, <1>t DEF EraseDomain, Applied
  <2>4. \A d \in Domains : domain'[d] < lifetime
    BY <2>1, <2>3, <1>t, <1>g DEF DomainInv
  <2>5. run'.pc = "progress" => \A d \in Domains : d <= run.i => domain'[d] = 0
    <3> SUFFICES ASSUME out = "ok", NEW d \in Domains, d <= run.i PROVE domain'[d] = 0
      BY <2>2
    <3>1. d = run.i \/ d < run.i
      BY <2>1 DEF Domains
    <3> QED
      BY <3>1, <2>1, <2>3 DEF DomainInv
  <2> QED
    BY <2>1, <2>2, <2>4, <2>5 DEF JournalInv, DomainInv, Quiet, Processing, AtPc
<1>9. ASSUME NEW out \in Outcomes, NoteFailure(out) PROVE JournalInv' /\ DomainInv'
  <2>1. journal.st = "ACTIVE" /\ journal'.st = "ACTIVE" /\ run'.pc = "recovery" /\ UNCHANGED <<domain, lifetime>>
    BY <1>9 DEF NoteFailure, StopsInRecovery, Entry, JournalInv, Processing, AtPc
  <2> QED
    BY <2>1, ResetAtRest DEF Quiet
<1>10. ASSUME NEW out \in Outcomes, Progress(out) PROVE JournalInv' /\ DomainInv'
  <2>1. /\ AtPc("progress") /\ run.i \in Domains /\ journal.st = "ACTIVE" /\ journal.gen = run.gen
        /\ (\A s \in Fences : fence[s].gen = run.gen) /\ UNCHANGED <<fence, domain, lifetime>>
    BY <1>10 DEF Progress, JournalInv, AtPc, Processing
  <2>2. \A d \in Domains : d <= run.i => domain[d] = 0
    BY <2>1 DEF DomainInv
  <2>3. journal' = journal \/ (journal'.st = Phase(run.i) /\ journal'.gen = run.gen)
    BY <1>10 DEF Progress, Entry
  <2>4. run.i = DomainCount => \A d \in Domains : domain[d] = 0
    BY <2>2, ResetConstants DEF Domains
  <2>5. out = "ok" => journal'.st = Phase(run.i) /\ journal'.gen = run.gen
    BY <1>10 DEF Progress, Entry, Applied
  <2>6. CASE out # "ok"
    <3>1. run'.pc = "recovery"
      BY <1>10, <2>6 DEF Progress, StopsInRecovery
    <3> QED
      BY <2>1, <2>3, <2>4, <3>1 DEF Phase, JournalInv, DomainInv, Quiet, Processing, AtPc
  <2>7. CASE out = "ok" /\ run.i < DomainCount
    <3>1. run' = [run EXCEPT !.pc = "erase", !.i = run.i + 1]
      BY <1>10, <2>7 DEF Progress
    <3>2. run'.pc = "erase" /\ run'.i = run.i + 1 /\ run'.gen = run.gen /\ run'.i \in Domains
      BY <3>1, <2>1, <2>7, <1>t, ResetConstants DEF Runs, Domains
    <3>3. journal'.st = "ACTIVE" /\ journal'.gen = run.gen
      BY <2>5, <2>7, <2>1, ResetConstants DEF Phase, Domains
    <3>4. \A d \in Domains : d < run'.i => domain[d] = 0
      BY <2>2, <2>1, <3>2 DEF Domains
    <3> QED
      BY <2>1, <3>2, <3>3, <3>4 DEF JournalInv, DomainInv, Quiet, Processing, AtPc
  <2>8. CASE out = "ok" /\ ~(run.i < DomainCount)
    <3>1. run.i = DomainCount
      BY <2>1, <2>8, ResetConstants DEF Domains
    <3>2. run'.pc = "running" /\ journal'.st = "COMPLETE"
      BY <1>10, <2>5, <2>8, <3>1 DEF Progress, Phase
    <3> QED
      BY <2>1, <2>4, <3>1, <3>2 DEF JournalInv, DomainInv, Quiet, Processing, AtPc
  <2> QED
    BY <2>6, <2>7, <2>8
<1>11. CASE BootStep
  BY <1>1, <1>2, <1>3, <1>4, <1>5, <1>6, <1>7, <1>8, <1>9, <1>10, <1>11 DEF BootStep
(* A reset is recorded: all that is there is of an earlier lifetime now.   *)
<1>n. ASSUME journal'.st = "ACTIVE", lifetime' = lifetime + 1, domain' = domain, run'.pc \in {"restart", "recovery"}
      PROVE  JournalInv' /\ DomainInv'
  <2>1. \A d \in Domains : domain'[d] < lifetime'
    BY <1>n, <1>g, <1>t
  <2> QED
    BY <1>n, <2>1 DEF JournalInv, DomainInv, Quiet, Processing, AtPc
<1>12. ASSUME NEW out \in Outcomes, NEW found \in SUBSET Fences, Request(out) \/ Repair(found, out)
       PROVE  JournalInv' /\ DomainInv'
  <2>1. /\ domain' = domain
        /\ run'.pc \in {"restart", "recovery"}
    BY <1>12, <1>t, GoesToIsRun DEF Request, Repair, RunLabels, AtPc
  <2>2. PICK g : Records(out, g)
    BY <1>12 DEF Request, Repair
  <2>3. CASE Applied(out)
    BY <2>1, <2>2, <2>3, <1>n DEF Records, Entry
  <2>4. CASE ~Applied(out)
    BY <2>1, <2>2, <2>4, ResetAtRest DEF Records, Quiet
  <2> QED
    BY <2>3, <2>4
<1>14. CASE RequestRefused
  <2>1. run'.pc = "restart"
    BY <1>14, <1>t, GoesToIsRun DEF RequestRefused, RunLabels
  <2> QED
    BY <1>14, <2>1, ResetAtRest DEF RequestRefused, Quiet
<1>15. CASE SpoilJournal
  BY <1>15, ResetAtRest DEF SpoilJournal, Quiet, Entry, AtPc
<1>16. ASSUME NEW s \in Fences, SpoilFence(s) PROVE JournalInv' /\ DomainInv'
  BY <1>16, ResetAtRest DEF SpoilFence, Quiet, AtPc
<1>17. ASSUME NEW d \in Domains, SaveDomain(d) PROVE JournalInv' /\ DomainInv'
  <2>1. AtPc("running") /\ Quiet /\ UNCHANGED <<journal, fence, run, lifetime>>
    BY <1>17 DEF SaveDomain, JournalInv
  <2>2. \A e \in Domains : domain'[e] \in {domain[e], lifetime}
    BY <1>17, <1>t DEF SaveDomain
  <2> QED
    BY <2>1, <2>2 DEF JournalInv, DomainInv, Quiet, Processing, AtPc
<1>18. CASE PowerCut
  BY <1>18, ResetAtRest DEF PowerCut, Quiet
<1> QED
  BY <1>11, <1>12, <1>14, <1>15, <1>16, <1>17, <1>18 DEF FactoryStep

(* No save is of a later lifetime, and none of this one while a recorded   *)
(* reset waits.                                                            *)
WroteInv ==
  /\ \A n \in Saves : wrote[n] <= lifetime
  /\ journal.st = "ACTIVE" => \A n \in Saves : wrote[n] < lifetime

(* A store's own steps leave the reset alone, but for the fence's flag.    *)
LEMMA OperationsKeepReset ==
  ASSUME fence \in [Fences -> FenceRecords], BeginWrite \/ BeginErase \/ OpStep \/ \E c \in Cards : Swap(c)
  PROVE  /\ AtPc("running") /\ UNCHANGED <<journal, run, domain, lifetime>>
         /\ \A s \in Fences : fence'[s].gen = fence[s].gen /\ fence'[s].ok = fence[s].ok
         /\ ~ClearFence => fence' = fence
<1>1. CASE ClearFence
  <2>1. AtPc("running") /\ UNCHANGED <<journal, run, domain, lifetime>>
    BY <1>1 DEF ClearFence, OpAt
  <2>2. \A s \in Fences : fence'[s].gen = fence[s].gen /\ fence'[s].ok = fence[s].ok
    BY <1>1 DEF ClearFence, FenceRecords
  <2> QED
    BY <1>1, <2>1, <2>2
<1>2. CASE ~ClearFence
  BY <1>2 DEF BeginWrite, BeginErase, OpStep, OpStops, Lineage, Delete, Put, RenamePlain, RenameDropsBackup,
     RenameAside, RenameCommits, RenameGoesBack, RenameTidies, ReadBack, Swap, OpAt, ResetKept
<1> QED
  BY <1>1, <1>2

(* The wrote ghost moves with BeginWrite only.                             *)
LEMMA OnlyBeginWrites ==
  ASSUME CardNext, ~BeginWrite PROVE wrote' = wrote
BY DEF CardNext, ResetStep, Cut, BeginErase, OpStep, OpStops, Lineage, Delete, Put, RenamePlain,
   RenameDropsBackup, RenameAside, RenameCommits, RenameGoesBack, RenameTidies, ReadBack, ClearFence, Swap

(* The steps, by who takes them.                                           *)
LEMMA CardSteps ==
  ASSUME CardNext
  PROVE  \/ FactoryStep /\ UNCHANGED <<cards, mounted, wrote, current>> /\ (UNCHANGED op \/ op' = IdleOp)
         \/ BeginWrite \/ BeginErase \/ OpStep \/ \E c \in Cards : Swap(c)
<1>1. CASE ResetStep
  BY <1>1 DEF ResetStep, FactoryStep, Outcomes
<1>2. CASE Cut
  BY <1>2 DEF Cut, FactoryStep
<1> QED
  BY <1>1, <1>2 DEF CardNext

(* And so does every step of CardStore.                                    *)
LEMMA JournalCardNext ==
  ASSUME CardTypeOK, JournalInv, DomainInv, CardNext
  PROVE  JournalInv' /\ DomainInv'
<1>1. ResetTypeOK /\ fence \in [Fences -> FenceRecords]
  BY CardTypes, ResetTypes
<1>2. CASE FactoryStep
  BY <1>1, <1>2, JournalNext
<1>3. CASE BeginWrite \/ BeginErase \/ OpStep \/ \E c \in Cards : Swap(c)
  BY <1>1, <1>3, OperationsKeepReset, JournalStands, DomainsStand
<1> QED
  BY <1>2, <1>3, CardSteps

(* The entry becomes active only when a reset is recorded.                 *)
LEMMA LifetimeMoves ==
  ASSUME ResetTypeOK, JournalInv, FactoryStep
  PROVE  /\ lifetime' \in {lifetime, lifetime + 1}
         /\ lifetime' = lifetime => (journal'.st = "ACTIVE" => journal.st = "ACTIVE")
         /\ lifetime' # lifetime => journal'.st = "ACTIVE"
<1>1. CASE PowerOn \/ Quarantine \/ Inspect \/ ResumeNothing \/ ArmSkips \/ Restart \/ RequestRefused \/ PowerCut
           \/ (\E s \in Fences : SpoilFence(s)) \/ (\E d \in Domains : SaveDomain(d))
           \/ \E out \in Outcomes : Arm(out) \/ EraseDomain(out)
  BY <1>1 DEF PowerOn, Quarantine, Inspect, ResumeNothing, ArmSkips, Restart, RequestRefused, PowerCut,
     SpoilFence, SaveDomain, Arm, EraseDomain
<1>2. ASSUME NEW out \in Outcomes, ResumeCleans(out)
      PROVE  lifetime' = lifetime /\ (journal'.st = "ACTIVE" => journal.st = "ACTIVE")
  BY <1>2 DEF ResumeCleans, NoEntry
<1>3. ASSUME NEW out \in Outcomes, ResumeReplays(out) PROVE lifetime' = lifetime /\ journal.st = "ACTIVE"
  BY <1>3 DEF ResumeReplays, Replayed
<1>4. ASSUME NEW out \in Outcomes, NoteFailure(out) \/ Progress(out) PROVE lifetime' = lifetime /\ journal.st = "ACTIVE"
  BY <1>4 DEF NoteFailure, Progress, JournalInv, Processing, AtPc
<1>5. ASSUME NEW out \in Outcomes, NEW found \in SUBSET Fences, Request(out) \/ Repair(found, out)
      PROVE  \/ lifetime' = lifetime /\ journal' = journal
             \/ lifetime' = lifetime + 1 /\ journal'.st = "ACTIVE"
  BY <1>5 DEF Request, Repair, Records, Entry
<1>7. CASE SpoilJournal
  BY <1>7 DEF SpoilJournal, Entry
<1>l. lifetime \in Nat /\ lifetime + 1 # lifetime
  BY ResetTypes
<1> QED
  BY <1>1, <1>2, <1>3, <1>4, <1>5, <1>7, <1>l DEF FactoryStep, BootStep

(* A save is of the lifetime it begins in.                                 *)
LEMMA WroteNext ==
  ASSUME CardTypeOK, JournalInv, WroteInv, CardNext
  PROVE  WroteInv'
<1>t. /\ ResetTypeOK /\ fence \in [Fences -> FenceRecords] /\ lifetime \in Nat /\ used \in Budgets
      /\ \A n \in Saves : wrote[n] \in Nat
      /\ wrote \in [Saves -> Nat]
  BY CardTypes, ResetTypes DEF CardsAreTyped
<1>1. CASE FactoryStep /\ wrote' = wrote
  BY <1>1, <1>t, LifetimeMoves DEF WroteInv
<1>2. CASE BeginWrite
  <2>1. \A n \in Saves : wrote'[n] \in {wrote[n], lifetime}
    BY <1>2, <1>t DEF BeginWrite
  <2>2. Quiet /\ UNCHANGED <<journal, lifetime>>
    BY <1>2, <1>t, OperationsKeepReset DEF JournalInv
  <2> QED
    BY <2>1, <2>2, <1>t DEF WroteInv, Quiet
<1>3. CASE ~BeginWrite /\ (BeginErase \/ OpStep \/ \E c \in Cards : Swap(c))
  <2>1. wrote' = wrote
    BY <1>3, OnlyBeginWrites DEF CardNext
  <2>2. UNCHANGED <<journal, lifetime>>
    BY <1>3, <1>t, OperationsKeepReset
  <2> QED
    BY <2>1, <2>2 DEF WroteInv
<1> QED
  BY <1>1, <1>2, <1>3, CardSteps

-----------------------------------------------------------------------------
(***************************************************************************)
(* A card that is purged is one that is not admitted, until its marker is  *)
(* in place: what is deleted there was not shown.                          *)
(***************************************************************************)
Purging ==
  /\ op.live /\ op.kind \in {"new_write", "new_erase"}
  /\ op.pc \in {"delete", "put", "rename", "aside", "commit"} \/ (op.pc = "tidy" /\ op.on = "data")
PurgeInv == Purging => ~Admitted(mounted)

(* A card is admitted by its marker and the store's fence.                 *)
LEMMA AdmittedStands ==
  ASSUME NEW c \in Cards, fence'[Store] = fence[Store], Found(cards'[c].marker) = Found(cards[c].marker)
  PROVE  Admitted(c)' <=> Admitted(c)
BY DEF Admitted, MarkerMatches

(* Only a rename onto the marker changes what is found of one.             *)
LEMMA MarkersFound ==
  ASSUME CardTypeOK, KindInv, OpFiles, CardNext, NEW c \in Cards
  PROVE  \/ Found(cards'[c].marker) = Found(cards[c].marker)
         \/ c = mounted /\ op.on = "marker" /\ op.live /\ (RenamePlain \/ RenameCommits)
<1>t. /\ ResetTypeOK /\ CardsTyped /\ mounted \in Cards /\ op \in Ops
  BY CardTypes DEF CardsAreTyped
<1>n. /\ op.on \in {"data", "marker"}
      /\ op.on = "marker" => Target = cards[mounted].marker
  BY <1>t, TheTarget
<1>s. ASSUME UNCHANGED cards PROVE Found(cards'[c].marker) = Found(cards[c].marker)
  BY <1>s
<1>1. CASE \/ ResetStep \/ Cut \/ BeginWrite \/ BeginErase \/ OpStops \/ Lineage \/ ReadBack \/ ClearFence
           \/ \E d \in Cards : Swap(d)
  BY <1>1, <1>s DEF ResetStep, Cut, BeginWrite, BeginErase, OpStops, Lineage, ReadBack, ClearFence, Swap, CardsKept
<1>2. CASE Delete
  BY <1>2, <1>t, DeleteIsTyped
<1>r. ASSUME NEW bin, NEW bak, NEW tmp, NowIs(bin, bak, tmp),
             (IF bin # 0 THEN bin ELSE bak) = (IF Target["bin"] # 0 THEN Target["bin"] ELSE Target["bak"])
      PROVE  Found(cards'[c].marker) = Found(cards[c].marker)
  <2>1. CASE c # mounted \/ op.on = "data"
    BY <1>r, <2>1 DEF NowIs
  <2>2. CASE c = mounted /\ op.on = "marker"
    BY <1>r, <1>n, <2>2 DEF NowIs, Found
  <2> QED
    BY <1>n, <2>1, <2>2
<1>3. CASE Put
  BY <1>3, <1>t, <1>r, PutIsTyped
<1>4. CASE RenamePlain \/ RenameCommits
  <2>1. op.live /\ NowIs(Target["tmp"], Target["bak"], 0)
    BY <1>4, <1>t, RenamesAreTyped DEF RenamePlain, RenameCommits, SameBackend
  <2> QED
    BY <1>4, <1>n, <2>1 DEF NowIs
<1>5. CASE RenameDropsBackup
  <2>1. Target["bin"] # 0 /\ NowIs(Target["bin"], 0, Target["tmp"])
    BY <1>5, <1>t, RenamesAreTyped DEF RenameDropsBackup
  <2> QED
    BY <2>1, <1>r
<1>6. CASE RenameAside
  <2>1. Target["bin"] # 0 /\ NowIs(0, Target["bin"], Target["tmp"])
    BY <1>6, <1>t, RenamesAreTyped DEF RenameAside, OpAt, SameBackend, OpFiles
  <2> QED
    BY <2>1, <1>r
<1>7. CASE RenameGoesBack
  <2>1. Target["bin"] = 0 /\ NowIs(Target["bak"], 0, Target["tmp"])
    BY <1>7, <1>t, RenamesAreTyped DEF RenameGoesBack, OpAt, SameBackend, OpFiles
  <2> QED
    BY <2>1, <1>r
<1>8. CASE RenameTidies
  <2>1. Target["bin"] # 0 /\ NowIs(Target["bin"], 0, Target["tmp"])
    BY <1>8, <1>t, RenamesAreTyped DEF RenameTidies, OpAt, SameBackend, OpFiles
  <2> QED
    BY <2>1, <1>r
<1> QED
  BY <1>1, <1>2, <1>3, <1>4, <1>5, <1>6, <1>7, <1>8 DEF CardNext, OpStep

(* Until its marker is placed, a purged card stays unadmitted.             *)
LEMMA PurgeNext ==
  ASSUME CardTypeOK, KindInv, OpFiles, PurgeInv, CardNext
  PROVE  PurgeInv'
<1>t. /\ ResetTypeOK /\ CardsTyped /\ mounted \in Cards /\ op \in Ops /\ fence \in [Fences -> FenceRecords]
  BY CardTypes, ResetTypes DEF CardsAreTyped
<1>n. ASSUME ~Purging' PROVE PurgeInv'
  BY <1>n DEF PurgeInv
<1>i. ASSUME op'.pc \in {"idle", "lineage", "readback", "clear"} \/ ~op'.live \/ (op'.pc = "tidy" /\ op'.on = "marker")
      PROVE  PurgeInv'
  BY <1>i, <1>n DEF Purging
<1>j. ASSUME op' = IdleOp PROVE PurgeInv'
  BY <1>j, <1>i, IdleIsOp
<1>s. ASSUME Purging, mounted' = mounted, fence' = fence, Found(cards'[mounted].marker) = Found(cards[mounted].marker)
      PROVE  PurgeInv'
  BY <1>s, <1>t, AdmittedStands DEF PurgeInv, Admitted, MarkerMatches
<1>1. CASE ResetStep
  <2>1. UNCHANGED <<op, cards, mounted>>
    BY <1>1 DEF ResetStep
  <2>2. CASE op.pc = "idle"
    BY <2>1, <2>2, <1>i
  <2>3. CASE op.pc # "idle"
    <3>1. fence' = fence
      BY <1>1, <2>3, ResetStepQuiet DEF OpFiles
    <3> QED
      BY <2>1, <3>1 DEF PurgeInv, Purging, Admitted, MarkerMatches
  <2> QED
    BY <2>2, <2>3
<1>2. CASE Cut \/ OpStops \/ RenameGoesBack \/ ClearFence
  BY <1>2, <1>j DEF Cut, OpStops, RenameGoesBack, ClearFence, OpReturns
<1>3. CASE BeginWrite \/ BeginErase
  <2>1. op'.pc = "lineage"
    BY <1>3, IdleIsOp DEF BeginWrite, BeginErase, Ops
  <2> QED
    BY <2>1, <1>i
<1>4. CASE Lineage
  <2>1. UNCHANGED <<cards, mounted, fence>>
    BY <1>4 DEF Lineage, CardsKept, ResetKept
  <2>2. \/ ~Admitted(mounted)
        \/ op'.kind = op.kind /\ op.kind \in {"write", "erase"}
    BY <1>4, <1>t, OpAfterLineage DEF KindInv
  <2>3. CASE ~Admitted(mounted)
    BY <2>1, <2>3 DEF PurgeInv, Admitted, MarkerMatches
  <2>4. CASE op'.kind = op.kind /\ op.kind \in {"write", "erase"}
    BY <2>4, <1>n DEF Purging
  <2> QED
    BY <2>2, <2>3, <2>4
(* The other steps of the operation.                                       *)
<1>o. ASSUME op' = IdleOp \/ (op'.kind = op.kind /\ op'.live = op.live),
             op'.pc \in {"delete", "put", "rename", "aside", "commit"} =>
               op.pc \in {"delete", "put", "rename", "aside", "commit"} \/ (op.pc = "tidy" /\ op.on = "data"),
             op'.pc = "tidy" => op.pc = "commit" /\ op'.on = op.on,
             mounted' = mounted, fence' = fence, Found(cards'[mounted].marker) = Found(cards[mounted].marker)
      PROVE  PurgeInv'
  <2>1. CASE Purging
    BY <2>1, <1>o, <1>s
  <2>2. CASE ~Purging
    <3>1. CASE op' = IdleOp
      BY <3>1, <1>j
    <3>2. CASE op'.kind = op.kind /\ op'.live = op.live
      BY <2>2, <3>2, <1>o, <1>n DEF Purging
    <3> QED
      BY <1>o, <3>1, <3>2
  <2> QED
    BY <2>1, <2>2
<1>f. \/ Found(cards'[mounted].marker) = Found(cards[mounted].marker)
      \/ op.on = "marker" /\ op.live /\ (RenamePlain \/ RenameCommits)
  BY <1>t, MarkersFound
<1>5. CASE Delete
  <2>1. op.pc = "delete" /\ UNCHANGED <<mounted, fence>> /\ Found(cards'[mounted].marker) = Found(cards[mounted].marker)
    BY <1>5, <1>t, DeleteIsTyped DEF Delete, OpAt, ResetKept
  <2>2. op' = IdleOp \/ (op'.kind = op.kind /\ op'.live = op.live /\ op'.pc \in {"delete", "put"})
    BY <1>5, <1>t, OpAfterDelete DEF OpSame, Ops
  <2> QED
    BY <2>1, <2>2, <1>o, <1>j
<1>6. CASE Put \/ RenameDropsBackup \/ RenameAside
  <2>1. /\ op.pc \in {"put", "rename", "aside"} /\ UNCHANGED <<mounted, fence>>
        /\ op'.pc \in {"rename", "aside", "commit"} /\ OpSame
    BY <1>6, <1>t, OpGoesTo DEF Put, RenameDropsBackup, RenameAside, OpAt, ResetKept, OpLabels
  <2>2. Found(cards'[mounted].marker) = Found(cards[mounted].marker)
    <3>1. CASE Put
      BY <3>1, <1>t, PutIsTyped, TheTarget DEF NowIs, Found
    <3>2. CASE RenameDropsBackup
      BY <3>2, <1>t, RenamesAreTyped, TheTarget DEF RenameDropsBackup, NowIs, Found
    <3>3. CASE RenameAside
      <4>1. Target["bin"] # 0
        BY <3>3 DEF RenameAside, OpAt, SameBackend, OpFiles
      <4> QED
        BY <3>3, <4>1, <1>t, RenamesAreTyped, TheTarget DEF NowIs, Found
    <3> QED
      BY <1>6, <3>1, <3>2, <3>3
  <2> QED
    BY <2>1, <2>2, <1>o DEF OpSame
<1>7. CASE RenamePlain \/ RenameTidies
  <2>1. op.pc \in {"rename", "tidy"} /\ op.pc \in Placing /\ op' = AfterCommit /\ UNCHANGED <<mounted, fence>>
    BY <1>7 DEF RenamePlain, RenameTidies, OpAt, ResetKept, Placing
  <2>2. \/ op' = IdleOp \/ op'.pc = "readback"
        \/ op.on = "data" /\ op'.pc = "put" /\ OpSame
    BY <2>1, <1>t, OpAfterCommit
  <2>3. CASE op.on = "data" /\ op'.pc = "put" /\ OpSame
    <3>1. cards'[mounted].marker = cards[mounted].marker
      BY <1>7, <2>3, <1>t, RenamesAreTyped DEF NowIs
    <3> QED
      BY <2>1, <2>3, <3>1, <1>o DEF OpSame
  <2> QED
    BY <2>2, <2>3, <1>i, <1>j
<1>8. CASE RenameCommits
  <2>1. op.pc = "commit" /\ UNCHANGED <<mounted, fence>> /\ op'.pc = "tidy" /\ op'.on = op.on /\ OpSame
    BY <1>8, <1>t, OpGoesTo DEF RenameCommits, OpAt, ResetKept, OpLabels
  <2>2. CASE op.on = "marker"
    BY <2>1, <2>2, <1>i
  <2>3. CASE op.on = "data"
    <3>1. cards'[mounted].marker = cards[mounted].marker
      BY <1>8, <2>3, <1>t, RenamesAreTyped DEF NowIs
    <3> QED
      BY <2>1, <2>3, <3>1, <1>o DEF OpSame
  <2> QED
    BY <1>t, <2>2, <2>3 DEF Ops
<1>9. CASE ReadBack
  <2>1. op' = IdleOp \/ op' = [op EXCEPT !.pc = "clear"]
    BY <1>9 DEF ReadBack
  <2>2. op' = IdleOp \/ op'.pc = "clear"
    BY <2>1, <1>t DEF Ops
  <2> QED
    BY <2>2, <1>i, <1>j
<1>10. CASE \E c \in Cards : Swap(c)
  <2>1. ~op'.live
    BY <1>10, <1>t DEF Swap, Ops
  <2> QED
    BY <2>1, <1>i
<1> QED
  BY <1>1, <1>2, <1>3, <1>4, <1>5, <1>6, <1>7, <1>8, <1>9, <1>10 DEF CardNext, OpStep

(* The invariant of the reset and the cards, for every fault.              *)
LifetimeInv == CardFilesInv /\ JournalInv /\ DomainInv /\ WroteInv /\ PurgeInv

(* It holds at first ...                                                   *)
LEMMA LifetimeInit == CardInit => LifetimeInv
<1> SUFFICES ASSUME CardInit PROVE LifetimeInv
  OBVIOUS
<1>1. CardFilesInv
  BY CardFilesInit
<1>2. JournalInv /\ DomainInv
  BY DEF CardInit, ResetInit, NoEntry, JournalInv, DomainInv, Quiet, Processing, AtPc
<1>3. WroteInv
  BY DEF CardInit, ResetInit, NoEntry, WroteInv
<1>4. PurgeInv
  BY IdleIsOp DEF CardInit, PurgeInv, Purging
<1> QED
  BY <1>1, <1>2, <1>3, <1>4 DEF LifetimeInv

(* ... and is inductive.                                                   *)
LEMMA LifetimeNext == LifetimeInv /\ [CardNext]_cardVars => LifetimeInv'
<1> SUFFICES ASSUME LifetimeInv, [CardNext]_cardVars PROVE LifetimeInv'
  OBVIOUS
<1>1. CardFilesInv'
  BY CardFilesNext DEF LifetimeInv
<1>2. CASE CardNext
  BY <1>1, <1>2, JournalCardNext, WroteNext, PurgeNext DEF LifetimeInv, CardFilesInv
<1>3. CASE UNCHANGED cardVars
  <2>1. UNCHANGED <<journal, fence, domain, run, lifetime, cards, mounted, op, wrote>>
    BY <1>3 DEF cardVars, resetVars
  <2>2. JournalInv' /\ DomainInv' /\ WroteInv'
    BY <2>1 DEF LifetimeInv, JournalInv, DomainInv, WroteInv, Quiet, Processing, AtPc
  <2>3. PurgeInv'
    BY <2>1 DEF LifetimeInv, PurgeInv, Purging, Admitted, MarkerMatches
  <2> QED
    BY <1>1, <2>2, <2>3 DEF LifetimeInv
<1> QED
  BY <1>2, <1>3

(* The reset's entry, its progress over the fences and the domains, and    *)
(* the purge of a card that is not admitted, for every order of boots,     *)
(* power cuts, NVS errors, repairs and operations.                         *)
THEOREM LifetimeInvariant == CardSpec => []LifetimeInv
BY LifetimeInit, LifetimeNext, PTL DEF CardSpec

(* A card that holds data loses it by a delete only.                       *)
LEMMA DataStaysFound ==
  ASSUME CardFilesInv, CardFilesInv', CardNext, ~Delete, NEW c \in Cards, Found(cards[c].data) # 0
  PROVE  Found(cards'[c].data) # 0
<1>t. /\ CardsTyped /\ mounted \in Cards /\ op \in Ops /\ OpFiles
      /\ current[c] # 0 /\ Found(cards'[c].data) = current'[c]
      /\ current \in [Cards -> 0 .. MaxSaves + 1]
  BY CardTypes DEF CardFilesInv, CardsAreTyped, ReadsTheLastCommit
<1>1. CASE RenamePlain \/ RenameCommits
  <2>1. op.live /\ op.pc \in {"rename", "commit"} /\ Target["tmp"] # 0 /\ Commits
    BY <1>1 DEF RenamePlain, RenameCommits, OpAt, SameBackend
  <2>2. op.on = "data" => op.n # 0
    BY <2>1, <1>t, TheTarget DEF OpFiles
  <2>3. current'[c] # 0
    BY <2>1, <2>2, <1>t DEF Commits
  <2> QED
    BY <2>3, <1>t
<1>2. CASE ~(RenamePlain \/ RenameCommits)
  <2>1. current' = current
    BY <1>2 DEF CardNext, ResetStep, Cut, BeginWrite, BeginErase, OpStep, OpStops, Lineage, Put, RenameDropsBackup,
       RenameAside, RenameGoesBack, RenameTidies, ReadBack, ClearFence, Swap, CardsKept
  <2> QED
    BY <2>1, <1>t
<1> QED
  BY <1>1, <1>2

(* What a step does to the store's own fence.                              *)
LEMMA OwnFence ==
  ASSUME ResetTypeOK, JournalInv, FactoryStep
  PROVE  fence'[Store] = fence[Store] \/ ~fence'[Store].ok \/ journal.st = "ACTIVE"
<1>t. fence \in [Fences -> FenceRecords] /\ Store \in Fences
  BY ResetTypes, ResetConstants
<1>1. ASSUME NEW s \in Fences, SpoilFence(s) PROVE fence'[Store] = fence[Store] \/ ~fence'[Store].ok
  BY <1>1, <1>t DEF SpoilFence, FenceRecords
<1>2. ASSUME NEW out \in Outcomes, Arm(out) PROVE journal.st = "ACTIVE"
  BY <1>2 DEF Arm, JournalInv, Processing, AtPc
<1>3. CASE (\E s \in Fences : SpoilFence(s)) \/ (\E out \in Outcomes : Arm(out))
  BY <1>1, <1>2, <1>3
<1>4. CASE ~((\E s \in Fences : SpoilFence(s)) \/ (\E out \in Outcomes : Arm(out)))
  <2>1. fence' = fence
    BY <1>4 DEF FactoryStep, BootStep, PowerOn, Quarantine, Inspect, ResumeNothing, ArmSkips, Restart, ResumeCleans,
       ResumeReplays, EraseDomain, NoteFailure, Progress, RequestRefused, Request, Repair,
       SpoilJournal, SaveDomain, PowerCut
  <2> QED
    BY <2>1
<1> QED
  BY <1>3, <1>4

(* A card stops showing what it holds by an erase, a recorded reset, or a  *)
(* lineage record that is damaged.                                         *)
LEMMA CardsAreNotForgotten ==
  ASSUME LifetimeInv, LifetimeInv', CardNext, NEW c \in Cards, Shown(c) # 0, Shown(c)' = 0
  PROVE  \/ op.kind = "erase" /\ c = mounted
         \/ wrote[Shown(c)] < lifetime
         \/ ~fence'[Store].ok
<1>t. /\ ResetTypeOK /\ CardsTyped /\ mounted \in Cards /\ op \in Ops
      /\ fence \in [Fences -> FenceRecords] /\ Store \in Fences
      /\ KindInv /\ OpFiles
  BY CardTypes, ResetTypes, ResetConstants DEF LifetimeInv, CardFilesInv, CardsAreTyped
<1>a. Admitted(c) /\ Shown(c) = Found(cards[c].data) /\ Found(cards[c].data) # 0
  BY DEF Shown
<1>b. Shown(c) \in Saves
  <2>1. cards[c].data["bin"] \in 0 .. MaxSaves + 1 /\ cards[c].data["bak"] \in 0 .. MaxSaves + 1
    BY <1>t DEF CardsTyped, Contents, Files
  <2> QED
    BY <2>1, <1>a, ResetConstants DEF Found, Saves
<1>n. ~Admitted(c)' \/ Found(cards'[c].data) = 0
  BY DEF Shown
<1>1. CASE Delete
  <2>1. op.kind \in {"erase", "new_write", "new_erase"} /\ op.live /\ op.pc = "delete"
    BY <1>1, <1>t DEF Delete, OpAt, SameBackend, KindInv
  <2>2. c = mounted
    <3>1. fence' = fence
      BY <1>1 DEF Delete, ResetKept
    <3>2. c # mounted => cards'[c] = cards[c]
      BY <1>1, <1>t, DeleteIsTyped
    <3> QED
      BY <3>1, <3>2, <1>a, <1>n DEF Admitted, MarkerMatches
  <2>3. op.kind = "erase"
    BY <2>1, <2>2, <1>a DEF LifetimeInv, PurgeInv, Purging
  <2> QED
    BY <2>2, <2>3
<1>2. CASE ~Delete
  <2>1. ~Admitted(c)'
    BY <1>2, <1>a, <1>n, DataStaysFound DEF LifetimeInv
  <2>2. Found(cards'[c].marker) = Found(cards[c].marker)
    <3>1. SUFFICES ASSUME c = mounted, op.on = "marker", op.live, RenamePlain \/ RenameCommits PROVE FALSE
      BY <1>t, MarkersFound DEF LifetimeInv, CardFilesInv
    <3>2. op.pc \in {"rename", "commit"}
      BY <3>1 DEF RenamePlain, RenameCommits, OpAt
    <3>3. op.kind \in {"new_write", "new_erase"}
      BY <3>1, <3>2, <1>t DEF KindInv, Placing
    <3>4. ~Admitted(mounted)
      BY <3>1, <3>2, <3>3 DEF LifetimeInv, PurgeInv, Purging
    <3> QED
      BY <3>1, <3>4, <1>a
  <2>3. fence'[Store] # fence[Store]
    BY <2>1, <2>2, <1>a, AdmittedStands
  <2>4. ~ClearFence
    <3> SUFFICES ASSUME ClearFence PROVE FALSE
      OBVIOUS
    <3>1. fence' \in {fence, [fence EXCEPT ![Store].active = FALSE]}
      BY DEF ClearFence
    <3>2. fence'[Store].gen = fence[Store].gen /\ fence'[Store].ok = fence[Store].ok /\ ~fence'[Store].active
      BY <3>1, <1>t, <1>a DEF FenceRecords, Admitted
    <3> QED
      BY <3>2, <2>1, <2>2, <1>a DEF Admitted, MarkerMatches
  <2>5. FactoryStep
    BY <2>3, <2>4, <1>t, OperationsKeepReset, CardSteps
  <2>6. ~fence'[Store].ok \/ journal.st = "ACTIVE"
    BY <2>3, <2>5, <1>t, OwnFence DEF LifetimeInv
  <2>7. journal.st = "ACTIVE" => wrote[Shown(c)] < lifetime
    BY <1>b DEF LifetimeInv, WroteInv
  <2> QED
    BY <2>6, <2>7
<1> QED
  BY <1>1, <1>2

(* A domain is emptied only while a reset is recorded that covers it.      *)
LEMMA DomainsAreNotForgotten ==
  ASSUME LifetimeInv, CardNext, NEW d \in Domains, domain[d] # 0, domain'[d] = 0
  PROVE  domain[d] < lifetime
<1>t. ResetTypeOK /\ domain \in [Domains -> 0 .. lifetime] /\ lifetime \in Nat \ {0} /\ fence \in [Fences -> FenceRecords]
  BY CardTypes, ResetTypes DEF LifetimeInv, CardFilesInv
<1>1. FactoryStep
  BY <1>t, OperationsKeepReset, CardSteps
<1>2. ~ \E e \in Domains : SaveDomain(e)
  <2> SUFFICES ASSUME NEW e \in Domains, SaveDomain(e) PROVE FALSE
    OBVIOUS
  <2>1. domain'[d] \in {domain[d], lifetime}
    BY <1>t DEF SaveDomain
  <2> QED
    BY <2>1, <1>t
<1>3. \E out \in Outcomes : EraseDomain(out)
  BY <1>1, <1>2 DEF FactoryStep, BootStep, PowerOn, Quarantine, Inspect, ResumeNothing, ArmSkips, Restart, ResumeCleans,
     ResumeReplays, Arm, NoteFailure, Progress, RequestRefused, Request, Repair,
     SpoilJournal, SpoilFence, PowerCut
<1>4. journal.st = "ACTIVE"
  BY <1>3 DEF EraseDomain, LifetimeInv, JournalInv, Processing, AtPc
<1> QED
  BY <1>4 DEF LifetimeInv, DomainInv

(* Nothing that was saved since the last recorded reset is lost but by an  *)
(* erase: a completed entry is not processed again                         *)
(* (d1l_factory_reset_resume), and no admitted card is purged              *)
(* (sd_write_blob_with_lineage, sd_erase_blob_with_lineage).               *)
THEOREM OnlyAnEraseForgetsHolds == CardSpec => OnlyAnEraseForgets
<1> DEFINE Forgetting ==
      /\ \A d \in Domains : domain[d] # 0 /\ domain'[d] = 0 => domain[d] < lifetime
      /\ \A c \in Cards :
           Shown(c) # 0 /\ Shown(c)' = 0 =>
             \/ op.kind = "erase" /\ c = mounted
             \/ lifetime' # lifetime \/ wrote[Shown(c)] < lifetime
             \/ ~fence'[Store].ok
<1>1. LifetimeInv /\ LifetimeInv' /\ [CardNext]_cardVars => [Forgetting]_cardVars
  BY CardsAreNotForgotten, DomainsAreNotForgotten
<1>2. [][Forgetting]_cardVars => OnlyAnEraseForgets
  BY DEF OnlyAnEraseForgets
<1> HIDE DEF Forgetting
<1> QED
  BY <1>1, <1>2, LifetimeInvariant, PTL DEF CardSpec

-----------------------------------------------------------------------------
(* The markers against the fences, and what is fresh.                      *)

(* A reset that is recorded has a number beyond some lineage record's.     *)
RepairSeesARecord == lifetime' # lifetime => \E s \in Fences : fence[s].gen < journal'.gen

(* No marker is ahead of a fence, a recorded reset is ahead of them all,   *)
(* and where none is recorded the fences agree.                            *)
FenceInv ==
  /\ \A s \in Fences, c \in Cards, f \in Files : cards[c].marker[f] <= fence[s].gen
  /\ Quiet => \A s \in Fences : fence[s].gen = fence[Store].gen
  /\ journal.st = "ACTIVE" =>
       journal.gen > 0 /\ \A c \in Cards, f \in Files : cards[c].marker[f] < journal.gen

(* How the generations move with a step of the reset.                      *)
LEMMA GenerationsMove ==
  ASSUME ResetTypeOK, JournalInv, FactoryStep, RepairSeesARecord
  PROVE  /\ Quiet => \A s \in Fences : fence'[s].gen = fence[s].gen
         /\ Quiet' => Quiet \/ (journal.st = "ACTIVE" /\ fence' = fence /\ \A s \in Fences : fence[s].gen = journal.gen)
         /\ \A s \in Fences : fence'[s].gen = fence[s].gen \/ (journal.st = "ACTIVE" /\ fence'[s].gen = journal.gen)
         /\ journal'.st = "ACTIVE" =>
              \/ journal.st = "ACTIVE" /\ journal'.gen = journal.gen
              \/ fence' = fence /\ journal'.gen > 0 /\ \E s \in Fences : fence[s].gen < journal'.gen
<1>t. /\ journal \in Journals /\ fence \in [Fences -> FenceRecords] /\ run \in Runs /\ lifetime \in Nat \ {0}
      /\ Store \in Fences
  BY ResetTypes, ResetConstants
<1>1. CASE PowerOn \/ Quarantine \/ Inspect \/ ResumeNothing \/ ArmSkips \/ Restart \/ RequestRefused \/ PowerCut
           \/ (\E d \in Domains : SaveDomain(d)) \/ \E out \in Outcomes : EraseDomain(out)
  BY <1>1 DEF PowerOn, Quarantine, Inspect, ResumeNothing, ArmSkips, Restart, RequestRefused, PowerCut,
     SaveDomain, EraseDomain, Quiet
<1>2. CASE \E s \in Fences : SpoilFence(s)
  <2>1. journal' = journal /\ \A s \in Fences : fence'[s].gen = fence[s].gen
    BY <1>2, <1>t DEF SpoilFence, FenceRecords
  <2> QED
    BY <2>1 DEF Quiet
<1>3. CASE \E out \in Outcomes : Arm(out)
  <2>1. journal' = journal /\ journal.st = "ACTIVE" /\ journal.gen = run.gen
    BY <1>3 DEF Arm, JournalInv, Processing, AtPc
  <2>2. \A s \in Fences : fence'[s].gen \in {fence[s].gen, run.gen}
    BY <1>3, <1>t DEF Arm
  <2> QED
    BY <2>1, <2>2 DEF Quiet
<1>4. CASE \E out \in Outcomes : ResumeCleans(out)
  BY <1>4 DEF ResumeCleans, NoEntry, Quiet
<1>5. CASE \E out \in Outcomes : ResumeReplays(out)
  BY <1>5 DEF ResumeReplays, Replayed, Entry, Quiet
<1>6. CASE \E out \in Outcomes : NoteFailure(out) \/ Progress(out)
  <2>1. /\ journal.st = "ACTIVE" /\ journal.gen = run.gen /\ fence' = fence
        /\ \A s \in Fences : fence[s].gen = run.gen
    BY <1>6 DEF NoteFailure, Progress, JournalInv, Processing, AtPc
  <2>2. journal' = journal \/ journal'.gen = run.gen
    BY <1>6 DEF NoteFailure, Progress, Entry
  <2> QED
    BY <2>1, <2>2 DEF Quiet
(* The next generation is beyond every fence that is read.                 *)
<1>n. ASSUME NEW S \in SUBSET Fences, S # {}, \A s \in S : fence[s].gen < MaxGeneration
      PROVE  NextGeneration(S) > 0 /\ \E s \in Fences : fence[s].gen < NextGeneration(S)
  BY <1>n, NextGenerationIsNew
<1>7. ASSUME NEW out \in Outcomes, Request(out)
      PROVE  /\ fence' = fence
             /\ \/ journal' = journal
                \/ journal'.st = "ACTIVE" /\ journal'.gen > 0 /\ \E s \in Fences : fence[s].gen < journal'.gen
  <2>1. NextGeneration(Fences) > 0 /\ \E s \in Fences : fence[s].gen < NextGeneration(Fences)
    BY <1>7, <1>t, <1>n DEF Request
  <2> QED
    BY <1>7, <2>1 DEF Request, Records, Entry
<1>8. ASSUME NEW out \in Outcomes, NEW found \in SUBSET Fences, Repair(found, out)
      PROVE  /\ fence' = fence
             /\ \/ journal' = journal
                \/ journal'.st = "ACTIVE" /\ journal'.gen > 0 /\ \E s \in Fences : fence[s].gen < journal'.gen
  <2>1. NextGeneration(found) > 0
    BY <1>8, NextGenerationIsNew DEF Repair
  <2>2. \/ journal' = journal
        \/ lifetime' # lifetime /\ journal' = Entry("ACTIVE", NextGeneration(found))
    BY <1>8, <1>t DEF Repair, Records
  <2> QED
    BY <1>8, <2>1, <2>2 DEF Repair, Entry, RepairSeesARecord
<1>9. CASE \E out \in Outcomes : Request(out) \/ \E found \in SUBSET Fences : Repair(found, out)
  <2>1. /\ fence' = fence
        /\ \/ journal' = journal
           \/ journal'.st = "ACTIVE" /\ journal'.gen > 0 /\ \E s \in Fences : fence[s].gen < journal'.gen
    BY <1>7, <1>8, <1>9
  <2> QED
    BY <2>1 DEF Quiet
<1>10. CASE SpoilJournal
  BY <1>10 DEF SpoilJournal, Entry, Quiet
<1> QED
  BY <1>1, <1>2, <1>3, <1>4, <1>5, <1>6, <1>9, <1>10 DEF FactoryStep, BootStep

(* A step of the reset keeps the markers behind the fences.                *)
LEMMA FenceFactoryNext ==
  ASSUME ResetTypeOK, CardsTyped, JournalInv, FenceInv, FactoryStep, RepairSeesARecord, cards' = cards
  PROVE  FenceInv'
<1>t. /\ \A c \in Cards, f \in Files : cards[c].marker[f] \in Nat
      /\ fence \in [Fences -> FenceRecords] /\ Store \in Fences
  BY ResetTypes, ResetConstants DEF CardsTyped, MarkerFiles
<1>g. /\ Quiet => \A s \in Fences : fence'[s].gen = fence[s].gen
      /\ Quiet' => Quiet \/ (journal.st = "ACTIVE" /\ fence' = fence /\ \A s \in Fences : fence[s].gen = journal.gen)
      /\ \A s \in Fences : fence'[s].gen = fence[s].gen \/ (journal.st = "ACTIVE" /\ fence'[s].gen = journal.gen)
      /\ journal'.st = "ACTIVE" =>
           \/ journal.st = "ACTIVE" /\ journal'.gen = journal.gen
           \/ fence' = fence /\ journal'.gen > 0 /\ \E s \in Fences : fence[s].gen < journal'.gen
  BY GenerationsMove
<1>v. /\ \A s \in Fences : fence[s].gen \in Nat
      /\ journal.gen \in Nat /\ journal'.gen \in Nat
  <2>1. ResetTypeOK'
    BY ResetTypedNext
  <2> QED
    BY <2>1, ResetConstants DEF ResetTypeOK
<1>1. \A s \in Fences, c \in Cards, f \in Files : cards[c].marker[f] <= fence'[s].gen
  <2> SUFFICES ASSUME NEW s \in Fences, NEW c \in Cards, NEW f \in Files PROVE cards[c].marker[f] <= fence'[s].gen
    OBVIOUS
  <2>1. cards[c].marker[f] <= fence[s].gen /\ (journal.st = "ACTIVE" => cards[c].marker[f] < journal.gen)
    BY DEF FenceInv
  <2>2. fence'[s].gen = fence[s].gen \/ (journal.st = "ACTIVE" /\ fence'[s].gen = journal.gen)
    BY <1>g
  <2> QED
    BY <2>1, <2>2, <1>t, <1>v
<1>2. Quiet' => \A s \in Fences : fence'[s].gen = fence'[Store].gen
  BY <1>g, <1>t DEF FenceInv
<1>3. journal'.st = "ACTIVE" =>
        journal'.gen > 0 /\ \A c \in Cards, f \in Files : cards[c].marker[f] < journal'.gen
  <2>1. CASE journal.st = "ACTIVE" /\ journal'.gen = journal.gen
    BY <2>1 DEF FenceInv
  <2>2. CASE journal'.gen > 0 /\ \E s \in Fences : fence[s].gen < journal'.gen
    <3>1. PICK s \in Fences : fence[s].gen < journal'.gen
      BY <2>2
    <3>2. \A c \in Cards, f \in Files : cards[c].marker[f] <= fence[s].gen
      BY DEF FenceInv
    <3> QED
      BY <2>2, <3>1, <3>2, <1>t, <1>v
  <2> QED
    BY <1>g, <2>1, <2>2
<1> QED
  BY <1>1, <1>2, <1>3 DEF FenceInv

(* Where what a step leaves in the files comes from: the files, the save   *)
(* or the store's generation.                                              *)
LEMMA FilesComeFrom ==
  ASSUME CardTypeOK, KindInv, OpFiles, CardNext, NEW c \in Cards
  PROVE  /\ \A f \in Files :
              \/ cards'[c].marker[f] = 0
              \/ \E g \in Files : cards'[c].marker[f] = cards[c].marker[g]
              \/ c = mounted /\ op.on = "marker" /\ Put /\ cards'[c].marker[f] = fence[Store].gen
         /\ \A f \in {"bin", "bak"} :
              \/ cards'[c].data[f] = 0
              \/ \E g \in {"bin", "bak"} : cards'[c].data[f] = cards[c].data[g]
              \/ c = mounted /\ op.on = "data" /\ op.live /\ (RenamePlain \/ RenameCommits) /\ cards'[c].data[f] = op.n
<1>t. /\ ResetTypeOK /\ CardsTyped /\ mounted \in Cards /\ op \in Ops
  BY CardTypes DEF CardsAreTyped
<1>n. /\ op.on \in {"data", "marker"}
      /\ op.on = "marker" => Target = cards[mounted].marker
      /\ op.on = "data" => Target = cards[mounted].data
      /\ Files = {"bin", "bak", "tmp"}
  BY <1>t, TheTarget DEF Files
<1> DEFINE MarkersOk == \A f \in Files :
              \/ cards'[c].marker[f] = 0
              \/ \E g \in Files : cards'[c].marker[f] = cards[c].marker[g]
              \/ c = mounted /\ op.on = "marker" /\ Put /\ cards'[c].marker[f] = fence[Store].gen
           DataOk == \A f \in {"bin", "bak"} :
              \/ cards'[c].data[f] = 0
              \/ \E g \in {"bin", "bak"} : cards'[c].data[f] = cards[c].data[g]
              \/ c = mounted /\ op.on = "data" /\ op.live /\ (RenamePlain \/ RenameCommits) /\ cards'[c].data[f] = op.n
<1>m. cards'[c].marker = cards[c].marker => MarkersOk
  OBVIOUS
<1>d. cards'[c].data = cards[c].data => DataOk
  OBVIOUS
<1>s. ASSUME cards'[c] = cards[c] PROVE MarkersOk /\ DataOk
  BY <1>s, <1>m, <1>d
<1>r. ASSUME NEW bin \in {0, Target["bin"], Target["bak"]}, NEW bak \in {0, Target["bin"], Target["bak"]},
             NEW tmp \in {0, Target["tmp"]}, NowIs(bin, bak, tmp)
      PROVE  MarkersOk /\ DataOk
  <2>1. CASE c # mounted
    BY <1>r, <2>1, <1>s DEF NowIs
  <2>2. CASE c = mounted /\ op.on = "data"
    <3>1. MarkersOk
      BY <1>r, <2>2, <1>m DEF NowIs
    <3>2. cards'[c].data["bin"] = bin /\ cards'[c].data["bak"] = bak
      BY <1>r, <2>2 DEF NowIs
    <3>3. DataOk
      BY <3>2, <2>2, <1>n
    <3> QED
      BY <3>1, <3>3
  <2>3. CASE c = mounted /\ op.on = "marker"
    <3>1. DataOk
      BY <1>r, <2>3, <1>d DEF NowIs
    <3>2. cards'[c].marker["bin"] = bin /\ cards'[c].marker["bak"] = bak /\ cards'[c].marker["tmp"] = tmp
      BY <1>r, <2>3 DEF NowIs
    <3>3. MarkersOk
      BY <3>2, <2>3, <1>n
    <3> QED
      BY <3>1, <3>3
  <2> QED
    BY <1>n, <2>1, <2>2, <2>3
<1>1. CASE \/ ResetStep \/ Cut \/ BeginWrite \/ BeginErase \/ OpStops \/ Lineage \/ ReadBack \/ ClearFence
           \/ \E e \in Cards : Swap(e)
  <2>1. cards' = cards
    BY <1>1 DEF ResetStep, Cut, BeginWrite, BeginErase, OpStops, Lineage, ReadBack, ClearFence, Swap, CardsKept
  <2> QED
    BY <2>1, <1>s
<1>2. CASE Delete
  <2>1. cards'[c].marker = cards[c].marker
    BY <1>2, <1>t, DeleteIsTyped
  <2>2. \A f \in Files : cards'[c].data[f] = 0 \/ cards'[c].data[f] = cards[c].data[f]
    BY <1>2, <1>t, DeleteIsTyped
  <2>3. DataOk
    BY <2>2, <1>n
  <2> QED
    BY <2>1, <2>3, <1>m
<1>3. CASE Put
  <2>1. NowIs(Target["bin"], Target["bak"], Written)
    BY <1>3, <1>t, PutIsTyped
  <2>2. CASE c # mounted
    BY <2>1, <2>2, <1>s DEF NowIs
  <2>3. CASE c = mounted /\ op.on = "data"
    <3>1. cards'[c].data["bin"] = cards[c].data["bin"] /\ cards'[c].data["bak"] = cards[c].data["bak"]
      BY <2>1, <2>3, <1>n DEF NowIs
    <3> QED
      BY <2>1, <2>3, <3>1, <1>m DEF NowIs
  <2>4. CASE c = mounted /\ op.on = "marker"
    <3>1. /\ cards'[c].marker["bin"] = cards[c].marker["bin"] /\ cards'[c].marker["bak"] = cards[c].marker["bak"]
          /\ cards'[c].marker["tmp"] = fence[Store].gen
      BY <2>1, <2>4, <1>n DEF NowIs, Written
    <3>2. MarkersOk
      BY <1>3, <2>4, <3>1, <1>n
    <3> QED
      BY <2>1, <2>4, <3>2, <1>d DEF NowIs
  <2> QED
    BY <1>n, <2>2, <2>3, <2>4
<1>4. CASE RenamePlain \/ RenameCommits
  <2>1. /\ NowIs(Target["tmp"], Target["bak"], 0) /\ op.live /\ op.pc \in {"rename", "commit"}
    BY <1>4, <1>t, RenamesAreTyped DEF RenamePlain, RenameCommits, OpAt, SameBackend
  <2>2. CASE c # mounted
    BY <2>1, <2>2, <1>s DEF NowIs
  <2>3. CASE c = mounted /\ op.on = "data"
    <3>1. cards'[c].data["bin"] = op.n /\ cards'[c].data["bak"] = cards[c].data["bak"]
      BY <2>1, <2>3, <1>n DEF NowIs, OpFiles
    <3>2. DataOk
      BY <1>4, <2>1, <2>3, <3>1
    <3> QED
      BY <2>1, <2>3, <3>2, <1>m DEF NowIs
  <2>4. CASE c = mounted /\ op.on = "marker"
    <3>1. /\ cards'[c].marker["bin"] = cards[c].marker["tmp"] /\ cards'[c].marker["bak"] = cards[c].marker["bak"]
          /\ cards'[c].marker["tmp"] = 0
      BY <2>1, <2>4, <1>n DEF NowIs
    <3>2. MarkersOk
      BY <2>4, <3>1, <1>n
    <3> QED
      BY <2>1, <2>4, <3>2, <1>d DEF NowIs
  <2> QED
    BY <1>n, <2>2, <2>3, <2>4
<1>v. {Target["bin"], Target["bak"], 0} = {0, Target["bin"], Target["bak"]} /\ Target["tmp"] \in {0, Target["tmp"]}
  OBVIOUS
<1>5. CASE RenameDropsBackup \/ RenameTidies
  <2>1. NowIs(Target["bin"], 0, Target["tmp"])
    BY <1>5, <1>t, RenamesAreTyped
  <2> QED
    BY <2>1, <1>v, <1>r
<1>6. CASE RenameAside
  <2>1. NowIs(0, Target["bin"], Target["tmp"])
    BY <1>6, <1>t, RenamesAreTyped
  <2> QED
    BY <2>1, <1>v, <1>r
<1>7. CASE RenameGoesBack
  <2>1. NowIs(Target["bak"], 0, Target["tmp"])
    BY <1>7, <1>t, RenamesAreTyped
  <2> QED
    BY <2>1, <1>v, <1>r
<1> QED
  BY <1>1, <1>2, <1>3, <1>4, <1>5, <1>6, <1>7 DEF CardNext, OpStep

(* A store's step places no marker but the generation that every fence     *)
(* carries.                                                                *)
LEMMA FenceNext ==
  ASSUME CardTypeOK, KindInv, OpFiles, JournalInv, FenceInv, CardNext, RepairSeesARecord
  PROVE  FenceInv'
<1>t. /\ ResetTypeOK /\ CardsTyped /\ mounted \in Cards /\ op \in Ops
      /\ fence \in [Fences -> FenceRecords] /\ Store \in Fences
  BY CardTypes, ResetTypes, ResetConstants DEF CardsAreTyped
<1>1. CASE FactoryStep /\ UNCHANGED cards
  BY <1>1, <1>t, FenceFactoryNext
<1>2. CASE BeginWrite \/ BeginErase \/ OpStep \/ \E c \in Cards : Swap(c)
  <2>1. Quiet /\ journal.st # "ACTIVE" /\ journal' = journal /\ \A s \in Fences : fence'[s].gen = fence[s].gen
    BY <1>2, <1>t, OperationsKeepReset DEF JournalInv, Quiet
  <2>2. \A s \in Fences : fence'[s].gen = fence'[Store].gen
    BY <2>1, <1>t DEF FenceInv
  <2>3. \A s \in Fences, c \in Cards, f \in Files : cards'[c].marker[f] <= fence'[s].gen
    <3> SUFFICES ASSUME NEW s \in Fences, NEW c \in Cards, NEW f \in Files PROVE cards'[c].marker[f] <= fence'[s].gen
      OBVIOUS
    <3>1. fence[s].gen \in Nat /\ fence[s].gen = fence[Store].gen /\ fence'[s].gen = fence[s].gen
      BY <2>1, <1>t, ResetConstants DEF FenceRecords, FenceInv
    <3>2. \/ cards'[c].marker[f] = 0
          \/ \E g \in Files : cards'[c].marker[f] = cards[c].marker[g]
          \/ cards'[c].marker[f] = fence[Store].gen
      BY <1>2, FilesComeFrom DEF CardNext
    <3>3. \A g \in Files : cards[c].marker[g] <= fence[s].gen
      BY DEF FenceInv
    <3> QED
      BY <3>1, <3>2, <3>3
  <2> QED
    BY <2>1, <2>2, <2>3 DEF FenceInv
<1> QED
  BY <1>1, <1>2, CardSteps

(* What was saved in this lifetime.                                        *)
Fresh(c) == \A f \in {"bin", "bak"} : cards[c].data[f] # 0 => wrote[cards[c].data[f]] = lifetime

(* A card that could be admitted holds only what is fresh, and a marker is *)
(* placed only beside such data.                                           *)
FreshInv ==
  /\ Quiet => \A c \in Cards :
       fence[Store].gen = 0 \/ (\E f \in Files : cards[c].marker[f] = fence[Store].gen) => Fresh(c)
  /\ op.live /\ op.pc \in Placing => Fresh(mounted)
  /\ op.pc # "idle" /\ op.kind \in {"write", "new_write"} => op.n \in Saves /\ wrote[op.n] = lifetime

(* How an operation goes on.                                               *)
LEMMA OperationGoesOn ==
  ASSUME op \in Ops, KindInv, OpStep
  PROVE  \/ op' = IdleOp
         \/ /\ op.pc # "idle" /\ op'.n = op.n /\ op'.live = op.live
            /\ op'.kind \in {"write", "new_write"} => op.kind \in {"write", "new_write"}
            /\ op'.pc \in Placing =>
                 \/ op.pc \in Placing
                 \/ Lineage /\ Admitted(mounted)
                 \/ Delete /\ op.i = 3
<1>1. CASE OpStops \/ RenameGoesBack \/ ClearFence
  BY <1>1 DEF OpStops, RenameGoesBack, ClearFence, OpReturns
<1>2. CASE Lineage
  <2>1. /\ op.pc = "lineage" /\ op'.n = op.n /\ op'.live = op.live /\ op.kind \in {"write", "erase"}
        /\ \/ op'.pc = "delete" /\ IF op.kind = "write" THEN op'.kind = "new_write" ELSE op'.kind = "new_erase"
           \/ Admitted(mounted) /\ op'.kind = op.kind
    BY <1>2, OpAfterLineage DEF KindInv
  <2> QED
    BY <1>2, <2>1 DEF Placing
<1>3. CASE Delete
  <2>1. op.pc = "delete" /\ op.live
    BY <1>3, OpAfterDelete
  <2>2. CASE op.i < 3 /\ op'.pc = "delete" /\ op'.kind = op.kind /\ op'.n = op.n /\ op'.live /\ op' \in Ops
    BY <2>1, <2>2 DEF Placing, Ops
  <2>3. CASE op.i = 3 /\ op'.pc = "put" /\ OpSame
    BY <1>3, <2>1, <2>3 DEF Placing, OpSame
  <2> QED
    BY <1>3, <2>2, <2>3, OpAfterDelete
<1>4. CASE Put \/ RenameDropsBackup \/ RenameAside \/ RenameCommits
  <2>1. op.pc \in Placing /\ op.pc # "idle" /\ OpSame
    BY <1>4, OpGoesTo DEF Put, RenameDropsBackup, RenameAside, RenameCommits, OpAt, OpLabels, Placing
  <2> QED
    BY <2>1 DEF OpSame
<1>5. CASE RenamePlain \/ RenameTidies
  <2>1. op.pc \in Placing /\ op.pc # "idle" /\ op' = AfterCommit
    BY <1>5 DEF RenamePlain, RenameTidies, OpAt, Placing
  <2>2. op' = IdleOp \/ OpSame
    BY <2>1, OpAfterCommit
  <2> QED
    BY <2>1, <2>2 DEF OpSame
<1>6. CASE ReadBack
  <2>1. op.pc = "readback" /\ (op' = IdleOp \/ op' = [op EXCEPT !.pc = "clear"])
    BY <1>6 DEF ReadBack, OpAt
  <2>2. op' = IdleOp \/ (op'.pc = "clear" /\ op'.n = op.n /\ op'.live = op.live /\ op'.kind = op.kind)
    BY <2>1 DEF Ops
  <2> QED
    BY <2>1, <2>2 DEF Placing
<1> QED
  BY <1>1, <1>2, <1>3, <1>4, <1>5, <1>6 DEF OpStep

(* What is fresh stays so within a lifetime.                               *)
LEMMA FreshStands ==
  ASSUME CardTypeOK, KindInv, OpFiles, FreshInv, CardNext, NEW c \in Cards, Fresh(c), lifetime' = lifetime
  PROVE  Fresh(c)'
<1>t. /\ ResetTypeOK /\ CardsTyped /\ mounted \in Cards /\ op \in Ops /\ wrote \in [Saves -> Nat]
      /\ \A f \in {"bin", "bak"} : cards[c].data[f] # 0 => cards[c].data[f] \in Saves
  <2>1. \A f \in Files : cards[c].data[f] \in 0 .. MaxSaves + 1
    BY CardTypes DEF CardsAreTyped, CardsTyped, Contents
  <2> QED
    BY <2>1, CardTypes, ResetConstants DEF CardsAreTyped, Files, Saves
<1>1. \A n \in Saves : wrote[n] = lifetime => wrote'[n] = lifetime'
  <2>1. CASE BeginWrite
    BY <2>1, <1>t DEF BeginWrite
  <2>2. CASE ~BeginWrite
    BY <2>2, OnlyBeginWrites
  <2> QED
    BY <2>1, <2>2
<1>2. op.on = "data" /\ op.live /\ (RenamePlain \/ RenameCommits) => op.n \in Saves /\ wrote[op.n] = lifetime
  <2> SUFFICES ASSUME op.on = "data", RenamePlain \/ RenameCommits PROVE op.n \in Saves /\ wrote[op.n] = lifetime
    OBVIOUS
  <2>1. op.pc \in {"rename", "commit"}
    BY DEF RenamePlain, RenameCommits, OpAt
  <2>2. op.kind \in {"write", "new_write"}
    BY <2>1 DEF KindInv, Placing
  <2> QED
    BY <2>1, <2>2 DEF FreshInv
<1>3. SUFFICES ASSUME NEW f \in {"bin", "bak"}, cards'[c].data[f] # 0
               PROVE  wrote'[cards'[c].data[f]] = lifetime'
  BY DEF Fresh
<1>4. \/ \E g \in {"bin", "bak"} : cards'[c].data[f] = cards[c].data[g]
      \/ op.on = "data" /\ op.live /\ (RenamePlain \/ RenameCommits) /\ cards'[c].data[f] = op.n
  BY <1>3, FilesComeFrom
<1>5. CASE \E g \in {"bin", "bak"} : cards'[c].data[f] = cards[c].data[g]
  BY <1>1, <1>3, <1>5, <1>t DEF Fresh
<1>6. CASE op.on = "data" /\ op.live /\ (RenamePlain \/ RenameCommits) /\ cards'[c].data[f] = op.n
  BY <1>1, <1>2, <1>6
<1> QED
  BY <1>4, <1>5, <1>6

(* No step makes an old content admissible: a reset moves the fence beyond *)
(* every marker, and a marker is placed beside fresh data only.            *)
LEMMA FreshNext ==
  ASSUME CardTypeOK, KindInv, OpFiles, JournalInv, FenceInv, FreshInv, CardNext, RepairSeesARecord
  PROVE  FreshInv'
<1>t. /\ ResetTypeOK /\ CardsTyped /\ mounted \in Cards /\ op \in Ops /\ wrote \in [Saves -> Nat]
      /\ fence \in [Fences -> FenceRecords] /\ Store \in Fences /\ used.saves \in 0 .. MaxSaves
  BY CardTypes, ResetTypes, ResetConstants DEF CardsAreTyped, Budgets
<1>u. CardTypeOK' /\ ResetTypeOK'
  BY CardTypedNext, CardTypesNext
<1>v. /\ fence[Store].gen \in Nat /\ fence'[Store].gen \in Nat /\ journal.gen \in Nat
      /\ \A c \in Cards, f \in Files : cards[c].marker[f] \in Nat
  BY <1>t, <1>u, ResetConstants DEF ResetTypeOK, CardsTyped, MarkerFiles
<1>a. ASSUME Quiet', NEW c \in Cards,
             fence'[Store].gen = 0 \/ \E f \in Files : cards'[c].marker[f] = fence'[Store].gen
      PROVE  Fresh(c)'
  <2>1. CASE FactoryStep /\ UNCHANGED <<cards, mounted, wrote, current>>
    <3>1. lifetime' = lifetime
      BY <1>a, <2>1, <1>t, LifetimeMoves DEF Quiet
    <3>2. Quiet
      <4> SUFFICES ASSUME journal.st = "ACTIVE", fence' = fence, fence[Store].gen = journal.gen PROVE FALSE
        BY <1>a, <2>1, <1>t, GenerationsMove
      <4>1. journal.gen > 0 /\ \A f \in Files : cards[c].marker[f] < journal.gen
        BY DEF FenceInv
      <4> QED
        BY <4>1, <1>a, <2>1, <1>v
    <3>3. fence'[Store].gen = fence[Store].gen
      BY <2>1, <3>2, <1>t, GenerationsMove
    <3> QED
      BY <1>a, <2>1, <3>1, <3>2, <3>3, FreshStands DEF FreshInv
  <2>2. CASE BeginWrite \/ BeginErase \/ OpStep \/ \E d \in Cards : Swap(d)
    <3>1. Quiet /\ lifetime' = lifetime /\ fence'[Store].gen = fence[Store].gen
      BY <2>2, <1>t, OperationsKeepReset DEF JournalInv
    <3>2. CASE fence[Store].gen = 0 \/ \E f \in Files : cards[c].marker[f] = fence[Store].gen
      BY <3>1, <3>2, FreshStands DEF FreshInv
    <3>3. CASE ~(fence[Store].gen = 0 \/ \E f \in Files : cards[c].marker[f] = fence[Store].gen)
      <4>1. PICK f \in Files : cards'[c].marker[f] = fence[Store].gen
        BY <1>a, <3>1, <3>3
      <4>2. c = mounted /\ Put
        BY <4>1, <3>3, FilesComeFrom
      <4>3. Fresh(mounted)
        BY <4>2 DEF Put, OpAt, SameBackend, Placing, FreshInv
      <4> QED
        BY <4>2, <4>3, <3>1, FreshStands
    <3> QED
      BY <3>2, <3>3
  <2> QED
    BY <2>1, <2>2, CardSteps
<1>q. op.pc # "idle" => ~ResetStep \/ (UNCHANGED <<op, cards, wrote, mounted, lifetime>>)
  BY ResetStepQuiet DEF OpFiles, ResetStep
<1>b. ASSUME op'.live, op'.pc \in Placing PROVE Fresh(mounted)'
  <2>i. op' # IdleOp
    BY <1>b, IdleIsOp
  <2>1. CASE ResetStep
    <3>1. op' = op /\ op.pc # "idle"
      BY <1>b, <2>1 DEF ResetStep, Placing
    <3> QED
      BY <1>b, <1>q, <2>1, <3>1 DEF FreshInv, Fresh
  <2>2. CASE Cut \/ BeginWrite \/ BeginErase \/ \E c \in Cards : Swap(c)
    <3>1. op' = IdleOp \/ op'.pc = "lineage" \/ ~op'.live
      <4>1. CASE Cut
        BY <4>1 DEF Cut
      <4>2. CASE BeginWrite \/ BeginErase
        BY <4>2, IdleIsOp DEF BeginWrite, BeginErase, Ops
      <4>3. CASE \E c \in Cards : Swap(c)
        BY <4>3, <1>t DEF Swap, Ops
      <4> QED
        BY <2>2, <4>1, <4>2, <4>3
    <3> QED
      BY <1>b, <2>i, <3>1 DEF Placing
  <2>3. CASE OpStep
    <3>1. lifetime' = lifetime /\ mounted' = mounted /\ Quiet
      <4>1. lifetime' = lifetime /\ Quiet
        BY <2>3, <1>t, OperationsKeepReset DEF JournalInv
      <4>2. mounted' = mounted
        BY <2>3 DEF OpStep, OpStops, Lineage, Delete, Put, RenamePlain, RenameDropsBackup, RenameAside, RenameCommits,
           RenameGoesBack, RenameTidies, ReadBack, ClearFence
      <4> QED
        BY <4>1, <4>2
    <3>s. ASSUME Fresh(mounted) PROVE Fresh(mounted)'
      <4>1. PICK c \in Cards : c = mounted
        BY <1>t
      <4>2. Fresh(c)'
        BY <4>1, <3>s, <3>1, FreshStands
      <4> QED
        BY <4>1, <4>2, <3>1 DEF Fresh
    <3>2. CASE op.pc \in Placing /\ op.live
      BY <3>2, <3>s DEF FreshInv
    <3>3. CASE Lineage /\ Admitted(mounted)
      <4>1. fence[Store].gen = 0 \/ \E f \in Files : cards[mounted].marker[f] = fence[Store].gen
        BY <3>3 DEF Admitted, MarkerMatches, Found, Files
      <4> QED
        BY <4>1, <3>1, <3>s, <1>t DEF FreshInv
    <3>4. CASE Delete /\ op.i = 3
      <4>1. cards[mounted].data["bak"] = 0 /\ EraseOrder[op.i] = "bin"
        BY <3>4 DEF Delete, OpAt, SameBackend, OpFiles, EraseOrder
      <4>2. cards'[mounted].data["bin"] = 0 /\ cards'[mounted].data["bak"] = 0
        BY <3>4, <4>1, <1>t, DeleteIsTyped DEF Files
      <4> QED
        BY <4>2, <3>1 DEF Fresh
    <3> QED
      BY <1>b, <2>3, <2>i, <1>t, <3>2, <3>3, <3>4, OperationGoesOn
  <2> QED
    BY <2>1, <2>2, <2>3 DEF CardNext
<1>c. ASSUME op'.pc # "idle", op'.kind \in {"write", "new_write"} PROVE op'.n \in Saves /\ wrote'[op'.n] = lifetime'
  <2>i. op' # IdleOp
    BY <1>c, IdleIsOp
  <2>1. CASE ResetStep
    <3>1. op' = op
      BY <2>1 DEF ResetStep
    <3> QED
      BY <1>c, <1>q, <2>1, <3>1 DEF FreshInv
  <2>2. CASE Cut \/ BeginErase
    <3>1. op' = IdleOp \/ op'.kind = "erase"
      BY <2>2, IdleIsOp DEF Cut, BeginErase, Ops
    <3> QED
      BY <1>c, <2>i, <3>1
  <2>3. CASE BeginWrite
    <3>1. op'.n = used.saves + 2
      BY <2>3, IdleIsOp DEF BeginWrite, Ops
    <3>2. used.saves + 2 \in Saves
      BY <2>3, <1>t, ResetConstants DEF BeginWrite, ASave, Saves
    <3>3. wrote'[used.saves + 2] = lifetime /\ lifetime' = lifetime
      BY <2>3, <3>2, <1>t DEF BeginWrite, ResetKept
    <3> QED
      BY <3>1, <3>2, <3>3
  <2>4. CASE OpStep \/ \E c \in Cards : Swap(c)
    <3>1. lifetime' = lifetime
      BY <2>4, <1>t, OperationsKeepReset
    <3>2. op.pc # "idle" /\ op'.n = op.n /\ op.kind \in {"write", "new_write"}
      <4>1. CASE OpStep
        BY <4>1, <1>c, <2>i, <1>t, OperationGoesOn
      <4>2. CASE \E c \in Cards : Swap(c)
        BY <4>2, <1>c, <1>t DEF Swap, Ops
      <4> QED
        BY <2>4, <4>1, <4>2
    <3>3. wrote' = wrote
      BY <2>4 DEF OpStep, OpStops, Lineage, Delete, Put, RenamePlain, RenameDropsBackup, RenameAside, RenameCommits,
         RenameGoesBack, RenameTidies, ReadBack, ClearFence, Swap
    <3> QED
      BY <3>1, <3>2, <3>3 DEF FreshInv
  <2> QED
    BY <2>1, <2>2, <2>3, <2>4 DEF CardNext
<1> QED
  BY <1>a, <1>b, <1>c DEF FreshInv

(* The invariant that the fences work, until a repair was blind.           *)
LifetimeFencedInv == LifetimeInv /\ (~blind => FenceInv /\ FreshInv)

(* It holds at first ...                                                   *)
LEMMA FencedInit == CardInit => LifetimeFencedInv
<1> SUFFICES ASSUME CardInit PROVE LifetimeFencedInv
  OBVIOUS
<1>1. LifetimeInv
  BY LifetimeInit
<1>c. Store \in Fences /\ 1 \in Saves
  BY ResetConstants DEF Saves
<1>d. \A c \in Cards : /\ \A f \in Files : cards[c].marker[f] = 0
                       /\ \A f \in Files : cards[c].data[f] \in {0, 1}
  <2> SUFFICES ASSUME NEW c \in Cards
               PROVE  /\ \A f \in Files : cards[c].marker[f] = 0
                      /\ \A f \in Files : cards[c].data[f] \in {0, 1}
    OBVIOUS
  <2>1. PICK n \in {0, 1} : cards[c] = [data |-> [NoFiles EXCEPT !["bin"] = n], marker |-> NoFiles]
    BY DEF CardInit
  <2> QED
    BY <2>1 DEF NoFiles
<1>2. FenceInv
  BY <1>c, <1>d DEF CardInit, ResetInit, NoEntry, FenceInv
<1>3. FreshInv
  <2>1. \A c \in Cards : Fresh(c)
    BY <1>c, <1>d DEF Fresh, CardInit, ResetInit, Files
  <2>2. op.pc = "idle" /\ ~op.live
    BY IdleIsOp DEF CardInit
  <2> QED
    BY <2>1, <2>2 DEF FreshInv, Placing
<1> QED
  BY <1>1, <1>2, <1>3 DEF LifetimeFencedInv

(* A repair without a lineage record is remembered.                        *)
LEMMA BlindnessIsRemembered ==
  ASSUME CardTypeOK, KindInv, CardNext, ~blind'
  PROVE  ~blind /\ RepairSeesARecord
<1>1. CASE ResetStep
  <2>1. blind' = (blind \/ (lifetime' # lifetime /\ \A s \in Fences : fence[s].gen >= journal'.gen))
    BY <1>1 DEF ResetStep
  <2>2. fence \in [Fences -> FenceRecords] /\ journal' \in Journals
    BY CardTypedNext, CardTypes, CardTypesNext, ResetTypes, ResetTypesNext
  <2>3. \A s \in Fences : fence[s].gen \in Nat
    BY <2>2 DEF FenceRecords
  <2>4. journal'.gen \in Nat
    BY <2>2 DEF Journals
  <2>5. ~blind /\ ~(lifetime' # lifetime /\ \A s \in Fences : fence[s].gen >= journal'.gen)
    BY <2>1
  <2>6. \A s \in Fences : ~(fence[s].gen >= journal'.gen) => fence[s].gen < journal'.gen
    BY <2>3, <2>4
  <2> QED
    BY <2>5, <2>6 DEF RepairSeesARecord
<1>2. CASE Cut
  BY <1>2 DEF Cut, PowerCut, RepairSeesARecord
<1>3. CASE BeginWrite \/ BeginErase \/ OpStep \/ \E c \in Cards : Swap(c)
  <2>1. UNCHANGED <<blind, lifetime>>
    BY <1>3 DEF BeginWrite, BeginErase, OpStep, OpStops, Lineage, Delete, Put, RenamePlain, RenameDropsBackup,
       RenameAside, RenameCommits, RenameGoesBack, RenameTidies, ReadBack, ClearFence, Swap, ResetKept
  <2> QED
    BY <2>1 DEF RepairSeesARecord
<1> QED
  BY <1>1, <1>2, <1>3 DEF CardNext

(* ... and is inductive.                                                   *)
LEMMA FencedNext == LifetimeFencedInv /\ [CardNext]_cardVars => LifetimeFencedInv'
<1> SUFFICES ASSUME LifetimeFencedInv, [CardNext]_cardVars PROVE LifetimeFencedInv'
  OBVIOUS
<1>1. LifetimeInv'
  BY LifetimeNext DEF LifetimeFencedInv
<1>2. CASE UNCHANGED cardVars
  <2>1. UNCHANGED <<journal, fence, lifetime, cards, mounted, op, wrote, blind>>
    BY <1>2 DEF cardVars, resetVars
  <2>2. ~blind' => FenceInv' /\ FreshInv'
    BY <2>1 DEF LifetimeFencedInv, FenceInv, FreshInv, Fresh, Quiet
  <2> QED
    BY <1>1, <2>2 DEF LifetimeFencedInv
<1>3. CASE CardNext
  <2>1. ASSUME ~blind' PROVE FenceInv' /\ FreshInv'
    <3>1. ~blind /\ RepairSeesARecord
      BY <1>3, <2>1, BlindnessIsRemembered DEF LifetimeFencedInv, LifetimeInv, CardFilesInv
    <3> QED
      BY <1>3, <3>1, FenceNext, FreshNext DEF LifetimeFencedInv, LifetimeInv, CardFilesInv
  <2> QED
    BY <1>1, <2>1 DEF LifetimeFencedInv
<1> QED
  BY <1>2, <1>3

(* Markers, fences and the reset's generation stay in order, and what      *)
(* could be admitted is of this lifetime, as long as every repair could    *)
(* read a lineage record.                                                  *)
THEOREM LifetimeFencedInvariant == CardSpec => []LifetimeFencedInv
BY FencedInit, FencedNext, PTL DEF CardSpec

(* What it says while the producers run.                                   *)
LEMMA FencedShowsFresh == LifetimeFencedInv => NothingOfAnEarlierLifetime
<1> SUFFICES ASSUME LifetimeFencedInv, AtPc("running")
             PROVE  /\ \A d \in Domains : domain[d] \in {0, lifetime}
                    /\ ~blind => \A c \in Cards : Shown(c) # 0 => wrote[Shown(c)] = lifetime
  BY DEF NothingOfAnEarlierLifetime
<1>1. Quiet
  BY DEF LifetimeFencedInv, LifetimeInv, JournalInv
<1>2. \A d \in Domains : domain[d] \in {0, lifetime}
  BY <1>1 DEF LifetimeFencedInv, LifetimeInv, DomainInv
<1>3. ASSUME ~blind, NEW c \in Cards, Shown(c) # 0 PROVE wrote[Shown(c)] = lifetime
  <2>1. Admitted(c) /\ Shown(c) = Found(cards[c].data)
    BY <1>3 DEF Shown
  <2>2. fence[Store].gen = 0 \/ \E f \in Files : cards[c].marker[f] = fence[Store].gen
    BY <2>1 DEF Admitted, MarkerMatches, Found, Files
  <2>3. Fresh(c)
    BY <1>1, <1>3, <2>2 DEF LifetimeFencedInv, FreshInv
  <2> QED
    BY <1>3, <2>1, <2>3 DEF Fresh, Found
<1> QED
  BY <1>2, <1>3

(* When the producers run, no domain and no admitted card shows anything   *)
(* that was saved before the last recorded reset, whatever card is put in  *)
(* and wherever power failed; for cards, unless a repair had no lineage    *)
(* record to count from.                                                   *)
THEOREM NothingOfAnEarlierLifetimeHolds == CardSpec => []NothingOfAnEarlierLifetime
BY LifetimeFencedInvariant, FencedShowsFresh, PTL
==============================================================================
