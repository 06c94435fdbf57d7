-------------------------- MODULE RetainedPartition --------------------------
(***************************************************************************)
(* How a boot takes possession of the retained NVS partition               *)
(* (d1l_retained_blob_store_init in main/storage/retained_blob_store.c).   *)
(* Three claims tell the firmware's own partition from a blank or foreign  *)
(* one: two markers in a metadata sector, an anchor inside the partition   *)
(* and a sentinel in the default NVS.  The boot completes the claims that  *)
(* an interrupted boot left out, and otherwise refuses: a refused          *)
(* partition is never written.  Power may fail between any two steps and   *)
(* within the write of a marker or the erase of the sector.                *)
(* One store keeps its value in the partition, the read state; firmware    *)
(* from before the partition kept it in the default NVS.  The other stores *)
(* live on the SD card, and the boot moves nothing of theirs:              *)
(* migrate_known_legacy_nvs_keys skips each key of its table.              *)
(***************************************************************************)
EXTENDS Integers

CONSTANTS
  MaxPowerCuts,    \* bounds of the model: power cuts,
  MaxIoErrors,     \* reads and writes that fail,
  MaxValues        \* values saved

ASSUME PartitionAssumption ==
  MaxPowerCuts \in Nat /\ MaxIoErrors \in Nat /\ MaxValues \in Nat

VARIABLES
  meta,        \* the two markers: erased, torn, of version 1, 2 or newer
  region,      \* the partition: blank, foreign, NVS without or with the anchor
  sentinel,    \* whether the default NVS holds the sentinel
  legacy,      \* the read state's value in the default NVS (0: absent)
  dedicated,   \* its value in the partition
  boot,        \* where the boot is, later the store; whether the markers are
               \*   finalized: not, after the sentinel ("pending"), now
  spent,       \* what of the bounds is used
  expected,    \* ghost: the values a read may find: the one last saved, or
               \*   none when an erase has begun
  spoiled      \* ghost: not ours from the start, or erased by an installer

partitionVars == <<meta, region, sentinel, legacy, dedicated, boot, spent, expected, spoiled>>

Sides == {"first", "last"}
MetaIs(first, last) == [s \in Sides |-> IF s = "first" THEN first ELSE last]
Blanks == MetaIs("erased", "erased")
BootOff == [pc |-> "off", finalize |-> "no"]

(* nvs_read_blob prefers the partition.                                    *)
Stored == IF dedicated # 0 THEN dedicated ELSE legacy

(* A new device, one of the published candidate with version-1 markers     *)
(* (whose NVS may never have programmed a page), one with a predecessor's  *)
(* bytes, and one that ran newer firmware.  Older firmware left a value.   *)
PartitionInit ==
  /\ \/ meta = Blanks /\ region \in {"blank", "foreign"}
     \/ meta = MetaIs("v1", "v1") /\ region \in {"blank", "bare"}
     \/ meta = MetaIs("newer", "newer") /\ region = "anchored"
  /\ sentinel = FALSE
  /\ legacy \in {0, 1}
  /\ dedicated \in (IF region = "bare" THEN {0, 2} ELSE {0})
  /\ boot = BootOff
  /\ spent = [cuts |-> 0, errors |-> 0, values |-> 0]
  /\ expected = {Stored}
  /\ spoiled = (region = "foreign" \/ meta["first"] = "newer")

BootAt(label) == boot.pc = label
BootGoes(label) == boot' = [boot EXCEPT !.pc = label]
ClaimsKept == UNCHANGED <<meta, region, sentinel>>
ValuesKept == UNCHANGED <<legacy, dedicated>>
GhostsKept == UNCHANGED <<spent, expected, spoiled>>

-----------------------------------------------------------------------------
(* initialize_retained_nvs_partition reads the claims.                     *)
Some(version) == \E s \in Sides : meta[s] = version
Both == \A s \in Sides : meta[s] = "v2"

SentinelIgnored ==                               \* mutant: an established partition may be resumed
  meta = MetaIs("v2", "erased")
BlankResume == meta = MetaIs("v2", "erased") /\ ~sentinel

Refused ==
  \/ Some("newer")
  \/ Some("v2") /\ Some("v1") /\ ~sentinel
  \/ Some("v2") /\ ~BlankResume /\ region = "blank"
  \/ ~Some("v2") /\ ~Some("v1") /\ (sentinel <=> region = "blank")

(* prepare_retained_nvs_markers erases the sector unless it is erased.     *)
Prepare == IF meta = Blanks THEN "write_first" ELSE "erase"

SwitchOn ==
  /\ BootAt("off")
  /\ BootGoes(IF Refused THEN "refused"
              ELSE IF Some("v2") THEN (IF BlankResume THEN "ensure" ELSE "require")
              ELSE IF Some("v1") THEN "ensure"
              ELSE IF region = "blank" THEN Prepare ELSE "require")
  /\ ClaimsKept /\ ValuesKept /\ GhostsKept

(* After the anchor: the missing marker is written, a torn one waits for   *)
(* the sentinel.                                                           *)
AfterAnchor ==
  CASE meta = MetaIs("v2", "erased") -> [boot EXCEPT !.pc = "fill_last"]
    [] meta = MetaIs("erased", "v2") -> [boot EXCEPT !.pc = "fill_first"]
    [] Some("v2") /\ ~Both /\ ~Some("erased") ->
         IF sentinel THEN [boot EXCEPT !.pc = Prepare]
         ELSE [boot EXCEPT !.pc = "sentinel", !.finalize = "pending"]
    [] Both -> [boot EXCEPT !.pc = "sentinel"]
    [] ~Some("v2") /\ Some("v1") -> [boot EXCEPT !.pc = "sentinel", !.finalize = "pending"]
    [] ~Some("v2") /\ ~Some("v1") -> [boot EXCEPT !.pc = Prepare]

RequireAnchor ==
  /\ BootAt("require")
  /\ IF region = "anchored" THEN boot' = AfterAnchor ELSE BootGoes("refused")
  /\ ClaimsKept /\ ValuesKept /\ GhostsKept

EnsureAnchor ==
  /\ BootAt("ensure")
  /\ region' = "anchored"
  /\ boot' = AfterAnchor
  /\ UNCHANGED <<meta, sentinel>> /\ ValuesKept /\ GhostsKept

-----------------------------------------------------------------------------
(* prepare_retained_nvs_markers: the sector, the first marker, the anchor, *)
(* the last marker.                                                        *)
EraseMeta ==
  /\ BootAt("erase")
  /\ meta' = Blanks
  /\ BootGoes("write_first")
  /\ UNCHANGED <<region, sentinel>> /\ ValuesKept /\ GhostsKept

WriteFirst ==
  /\ BootAt("write_first")
  /\ meta' = [meta EXCEPT !["first"] = "v2"]
  /\ BootGoes("write_anchor")
  /\ UNCHANGED <<region, sentinel>> /\ ValuesKept /\ GhostsKept

WriteAnchor ==
  /\ BootAt("write_anchor")
  /\ region' = "anchored"
  /\ BootGoes("write_last")
  /\ UNCHANGED <<meta, sentinel>> /\ ValuesKept /\ GhostsKept

WriteLast ==
  /\ boot.pc \in {"write_last", "fill_last"}
  /\ meta' = [meta EXCEPT !["last"] = "v2"]
  /\ IF boot.finalize = "now" THEN BootGoes("ready") ELSE BootGoes("sentinel")
  /\ UNCHANGED <<region, sentinel>> /\ ValuesKept /\ GhostsKept

FillFirst ==
  /\ BootAt("fill_first")
  /\ meta' = [meta EXCEPT !["first"] = "v2"]
  /\ BootGoes("sentinel")
  /\ UNCHANGED <<region, sentinel>> /\ ValuesKept /\ GhostsKept

-----------------------------------------------------------------------------
(* ensure_default_retained_nvs_sentinel, then load_legacy_retired_state of *)
(* each store (DmStore has what it reads), then the markers that wait.     *)
WriteSentinel ==
  /\ BootAt("sentinel")
  /\ sentinel' = TRUE
  /\ BootGoes("retired")
  /\ UNCHANGED <<meta, region>> /\ ValuesKept /\ GhostsKept

LoadRetired ==
  /\ BootAt("retired")
  /\ boot' = IF boot.finalize = "pending" THEN [boot EXCEPT !.pc = Prepare, !.finalize = "now"]
             ELSE [boot EXCEPT !.pc = "ready"]
  /\ ClaimsKept /\ ValuesKept /\ GhostsKept

-----------------------------------------------------------------------------
(* The read state in service.  A read that finds its value only in the     *)
(* default NVS copies it to the partition, a save writes it there; either  *)
(* then drops the older copy, and goes on when that fails.                 *)
InService == boot.pc \in {"ready", "drop_legacy", "erase_value"}

CopyForward ==
  /\ BootAt("ready")
  /\ dedicated = 0 /\ legacy # 0
  /\ dedicated' = legacy
  /\ BootGoes("drop_legacy")
  /\ ClaimsKept /\ UNCHANGED legacy /\ GhostsKept

SaveValue ==
  /\ BootAt("ready") /\ spent.values < MaxValues
  /\ spent' = [spent EXCEPT !.values = @ + 1]
  /\ dedicated' = spent.values + 3
  /\ expected' = {dedicated'}
  /\ BootGoes("drop_legacy")
  /\ ClaimsKept /\ UNCHANGED <<legacy, spoiled>>

DropLegacy ==
  /\ BootAt("drop_legacy")
  /\ legacy' = 0
  /\ BootGoes("ready")
  /\ ClaimsKept /\ UNCHANGED dedicated /\ GhostsKept

(* nvs_erase_blob: "Clear the obsolete default-NVS copy first", so that no *)
(* older value comes back when the second erase does not happen.           *)
PartitionFirst == dedicated' = 0 /\ UNCHANGED legacy   \* mutant: the wrong one first
FirstErased == legacy' = 0 /\ UNCHANGED dedicated

BeginValueErase ==
  /\ BootAt("ready")
  /\ FirstErased
  /\ expected' = expected \cup {0}
  /\ BootGoes("erase_value")
  /\ ClaimsKept /\ UNCHANGED <<spent, spoiled>>

EndValueErase ==
  /\ BootAt("erase_value")
  /\ dedicated' = 0 /\ UNCHANGED legacy
  /\ expected' = {0}
  /\ BootGoes("ready")
  /\ ClaimsKept /\ UNCHANGED <<spent, spoiled>>

EraseFails ==
  /\ boot.pc \in {"drop_legacy", "erase_value"} /\ spent.errors < MaxIoErrors
  /\ spent' = [spent EXCEPT !.errors = @ + 1]
  /\ BootGoes("ready")
  /\ ClaimsKept /\ ValuesKept /\ UNCHANGED <<expected, spoiled>>

Restarts ==
  /\ boot.pc \in {"ready", "refused", "failed"}
  /\ boot' = BootOff
  /\ ClaimsKept /\ ValuesKept /\ GhostsKept

Booting == ~InService /\ boot.pc \notin {"off", "refused", "failed"}

IoError ==
  /\ Booting /\ spent.errors < MaxIoErrors
  /\ spent' = [spent EXCEPT !.errors = @ + 1]
  /\ BootGoes("failed")
  /\ ClaimsKept /\ ValuesKept /\ UNCHANGED <<expected, spoiled>>

(* Power fails: between two steps, or within one, which leaves a torn      *)
(* marker, a sector half erased, or a page without the anchor.             *)
WithinMeta ==
  CASE boot.pc \in {"write_first", "fill_first"} -> {[meta EXCEPT !["first"] = "torn"]}
    [] boot.pc \in {"write_last", "fill_last"} -> {[meta EXCEPT !["last"] = "torn"]}
    [] BootAt("erase") -> {m \in [Sides -> {"erased", "torn", "v1", "v2"}] :
                             \A s \in Sides : m[s] \in {meta[s], "torn", "erased"}}
    [] OTHER -> {meta}

PowerFails ==
  /\ Booting \/ boot.pc \in {"drop_legacy", "erase_value"}
  /\ spent.cuts < MaxPowerCuts
  /\ spent' = [spent EXCEPT !.cuts = @ + 1]
  /\ meta' \in WithinMeta \cup {meta}
  /\ region' \in (IF boot.pc \in {"ensure", "write_anchor"} /\ region = "blank" THEN {"blank", "bare"}
                  ELSE {region})
  /\ boot' = BootOff
  /\ UNCHANGED sentinel /\ ValuesKept /\ UNCHANGED <<expected, spoiled>>

(* An installer erases the partition of a device that claims it.  Version-1*)
(* markers alone make a blank partition ours, even beside the sentinel: a  *)
(* wipe between the sentinel and the first version-2 marker is not noticed *)
(* and is left out.                                                        *)
Claimed == Some("v2") \/ (sentinel /\ ~Some("v1"))

Wipe ==
  /\ BootAt("off") /\ Claimed /\ ~spoiled
  /\ region' = "blank" /\ dedicated' = 0
  /\ spoiled' = TRUE
  /\ UNCHANGED <<meta, sentinel, legacy, boot, spent, expected>>

(* A marker of an established device is damaged.                           *)
DamageMarker(s) ==
  /\ BootAt("off") /\ sentinel /\ spent.errors < MaxIoErrors
  /\ spent' = [spent EXCEPT !.errors = @ + 1]
  /\ meta' = [meta EXCEPT ![s] = "torn"]
  /\ UNCHANGED <<region, sentinel, boot>> /\ ValuesKept /\ UNCHANGED <<expected, spoiled>>

PartitionNext ==
  \/ SwitchOn \/ RequireAnchor \/ EnsureAnchor
  \/ EraseMeta \/ WriteFirst \/ WriteAnchor \/ WriteLast \/ FillFirst
  \/ WriteSentinel \/ LoadRetired
  \/ CopyForward \/ SaveValue \/ DropLegacy \/ BeginValueErase \/ EndValueErase \/ EraseFails
  \/ Restarts \/ IoError \/ PowerFails \/ Wipe
  \/ \E s \in Sides : DamageMarker(s)

PartitionSpec == PartitionInit /\ [][PartitionNext]_partitionVars

-----------------------------------------------------------------------------
BootLabels == {"off", "require", "ensure", "erase", "write_first", "write_anchor",
               "write_last", "fill_last", "fill_first", "sentinel", "retired",
               "ready", "drop_legacy", "erase_value", "refused", "failed"}

PartitionTypeOK ==
  /\ meta \in [Sides -> {"erased", "torn", "v1", "v2", "newer"}]
  /\ region \in {"blank", "foreign", "bare", "anchored"}
  /\ sentinel \in BOOLEAN
  /\ legacy \in 0 .. MaxValues + 2 /\ dedicated \in 0 .. MaxValues + 2
  /\ boot \in [pc : BootLabels, finalize : {"no", "pending", "now"}]
  /\ spent \in [cuts : 0 .. MaxPowerCuts, errors : 0 .. MaxIoErrors, values : 0 .. MaxValues]
  /\ expected \subseteq 0 .. MaxValues + 2
  /\ spoiled \in BOOLEAN

(* A partition in service gives the value last saved, or none once an      *)
(* erase of it has begun, and only a partition that was never ours or that *)
(* was erased is refused: no power cut makes a boot fail for ever, loses a *)
(* value or brings an older one back, and an established partition that    *)
(* was erased is not taken for a new one ("must fail closed if the         *)
(* retained region is subsequently erased", retained_blob_store.c:1186).   *)
BootServesOrRefuses ==
  /\ InService => Stored \in expected
  /\ BootAt("refused") => spoiled
=============================================================================
