------------------------------ MODULE CardStore ------------------------------
(***************************************************************************)
(* A retained store's data on the memory card                              *)
(* (main/storage/retained_blob_store.c), down to the files the RP2040      *)
(* keeps (deskos_sd_bridge.ino), together with the factory reset that      *)
(* fences old cards.  A card is read only when its marker file carries the *)
(* store's lineage generation; a write to any other card first purges the  *)
(* store's files on it, and writes the marker last.  Cards are swapped and *)
(* power fails between any two steps, within the RP2040's replace too.     *)
(*                                                                         *)
(* The model has one store with one key.  A content is the number of the   *)
(* save it comes from, a marker its generation; 0 means no file.  A swap   *)
(* is noticed (note_sd_backend moves the backend generation) before the    *)
(* next command is answered from the other card.                           *)
(***************************************************************************)
EXTENDS FactoryReset

CONSTANT Cards

VARIABLES
  cards,      \* each card: the files of the data and of the marker
  mounted,    \* the card in the slot
  op,         \* the write or erase under way
  wrote,      \* ghost: the lifetime of each save
  current,    \* ghost: what each card was last committed to hold
  blind       \* ghost: a repair numbered its reset behind every record

cardVars == <<resetVars, cards, mounted, op, wrote, current, blind>>

Store == 1                    \* the store's index among the fences
Saves == 1 .. MaxSaves + 1
Files == {"bin", "bak", "tmp"}
NoFiles == [f \in Files |-> 0]
IdleOp == [pc |-> "idle", kind |-> "none", on |-> "data", i |-> 1, n |-> 0, live |-> FALSE]

(* Cards that were written before the first reset carry no marker.         *)
CardInit ==
  /\ ResetInit
  /\ cards \in [Cards -> {[data |-> [NoFiles EXCEPT !["bin"] = n], marker |-> NoFiles] : n \in {0, 1}}]
  /\ mounted \in Cards
  /\ op = IdleOp
  /\ wrote = [n \in Saves |-> IF n = 1 THEN 1 ELSE 0]
  /\ current = [c \in Cards |-> cards[c].data["bin"]]
  /\ blind = FALSE

-----------------------------------------------------------------------------
(* What a read finds: the primary, and the backup only if it is absent     *)
(* (sd_read_blob), on a card whose marker is found the same way and        *)
(* carries the store's generation (sd_media_lineage_ready).                *)
Found(files) == IF files["bin"] # 0 THEN files["bin"] ELSE files["bak"]

AnyMarker(c) == Found(cards[c].marker) # 0       \* mutant: the generations are not compared
MarkerMatches(c) == Found(cards[c].marker) = fence[Store].gen
Admitted(c) ==
  /\ fence[Store].ok /\ ~fence[Store].active
  /\ (fence[Store].gen = 0 \/ MarkerMatches(c))
Shown(c) == IF Admitted(c) THEN Found(cards[c].data) ELSE 0

-----------------------------------------------------------------------------
OpAt(label) == AtPc("running") /\ op.pc = label
OpGoes(label) == op' = [op EXCEPT !.pc = label]
OpReturns == op' = IdleOp
CardsKept == UNCHANGED <<cards, current>>
ResetKept == UNCHANGED <<journal, fence, domain, run, lifetime, blind>>

(* store_backend_generation_matches.                                       *)
SameBackend == op.live

(* A step of the operation ends it when the backend has changed or the     *)
(* command fails.                                                          *)
OpStops ==
  /\ AtPc("running") /\ op.pc # "idle"
  /\ \/ ~SameBackend /\ UNCHANGED used
     \/ AFault
  /\ OpReturns
  /\ CardsKept /\ ResetKept
  /\ UNCHANGED <<mounted, wrote>>

BeginWrite ==
  /\ OpAt("idle")
  /\ ASave
  /\ op' = [IdleOp EXCEPT !.pc = "lineage", !.kind = "write", !.n = used.saves + 2, !.live = TRUE]
  /\ wrote' = [wrote EXCEPT ![used.saves + 2] = lifetime]
  /\ CardsKept /\ ResetKept
  /\ UNCHANGED mounted

BeginErase ==
  /\ OpAt("idle")
  /\ ASave
  /\ op' = [IdleOp EXCEPT !.pc = "lineage", !.kind = "erase", !.live = TRUE]
  /\ CardsKept /\ ResetKept
  /\ UNCHANGED <<mounted, wrote>>

(* sd_write_blob_with_lineage, sd_erase_blob_with_lineage: a card that is  *)
(* not admitted is purged.  A marker that cannot be read is an error       *)
(* (OpStops), and so is an unreadable lineage record.                      *)
OnNewCard(kind) == IF kind = "write" THEN "new_write" ELSE "new_erase"

Lineage ==
  /\ OpAt("lineage") /\ SameBackend /\ fence[Store].ok
  /\ op' = IF ~Admitted(mounted) THEN [op EXCEPT !.pc = "delete", !.kind = OnNewCard(@)]
           ELSE [op EXCEPT !.pc = IF op.kind = "write" THEN "put" ELSE "delete"]
  /\ CardsKept /\ ResetKept
  /\ UNCHANGED <<mounted, used, wrote>>

(* sd_erase_blob_for_generation: the recovery candidate before the         *)
(* primary.                                                                *)
PrimaryFirst == <<"bin", "tmp", "bak">>          \* mutant: the backup survives the primary
EraseOrder == <<"bak", "tmp", "bin">>

NextAfterDelete ==
  CASE op.i < 3 -> [op EXCEPT !.i = @ + 1]
    [] op.i = 3 /\ op.kind = "erase" -> IdleOp
    [] op.i = 3 /\ op.kind = "new_write" -> [op EXCEPT !.pc = "put"]
    [] op.i = 3 /\ op.kind = "new_erase" -> [op EXCEPT !.pc = "put", !.on = "marker"]

Delete ==
  /\ OpAt("delete") /\ SameBackend
  /\ \E replied \in BOOLEAN :
       /\ IF replied THEN op' = NextAfterDelete /\ UNCHANGED used
          ELSE OpReturns /\ AFault
  /\ cards' = [cards EXCEPT ![mounted].data[EraseOrder[op.i]] = 0]
  /\ current' = [current EXCEPT ![mounted] = IF Found(cards'[mounted].data) = 0 THEN 0 ELSE @]
  /\ ResetKept
  /\ UNCHANGED <<mounted, wrote>>

(* sd_write_blob_for_generation: the temporary file, verified ...          *)
Written == IF op.on = "data" THEN op.n ELSE fence[Store].gen

Put ==
  /\ OpAt("put") /\ SameBackend
  /\ cards' = [cards EXCEPT ![mounted][op.on]["tmp"] = Written]
  /\ OpGoes("rename")
  /\ UNCHANGED current
  /\ ResetKept
  /\ UNCHANGED <<mounted, used, wrote>>

(* ... and rename_replace_preserving_old: the plain rename when there is   *)
(* no primary, else the old primary is kept as the backup meanwhile.       *)
Target == cards[mounted][op.on]
Replaced(files) == [files EXCEPT !["bin"] = files["tmp"], !["tmp"] = 0]
SetTarget(files) == cards' = [cards EXCEPT ![mounted][op.on] = files]
Commits ==
  /\ SetTarget(Replaced(Target))
  /\ current' = IF op.on = "data" THEN [current EXCEPT ![mounted] = op.n] ELSE current

AfterCommit ==
  CASE op.on = "data" /\ op.kind = "write" -> IdleOp
    [] op.on = "data" /\ op.kind = "new_write" -> [op EXCEPT !.pc = "put", !.on = "marker"]
    [] op.on = "marker" -> [op EXCEPT !.pc = "readback"]

RenamePlain ==
  /\ OpAt("rename") /\ SameBackend
  /\ Target["bin"] = 0 /\ Target["tmp"] # 0
  /\ Commits
  /\ op' = AfterCommit
  /\ ResetKept
  /\ UNCHANGED <<mounted, used, wrote>>

RenameDropsBackup ==
  /\ OpAt("rename") /\ SameBackend
  /\ Target["bin"] # 0
  /\ SetTarget([Target EXCEPT !["bak"] = 0])
  /\ OpGoes("aside")
  /\ UNCHANGED current
  /\ ResetKept
  /\ UNCHANGED <<mounted, used, wrote>>

RenameAside ==
  /\ OpAt("aside") /\ SameBackend
  /\ SetTarget([Target EXCEPT !["bak"] = Target["bin"], !["bin"] = 0])
  /\ OpGoes("commit")
  /\ UNCHANGED current
  /\ ResetKept
  /\ UNCHANGED <<mounted, used, wrote>>

RenameCommits ==
  /\ OpAt("commit") /\ SameBackend /\ Target["tmp"] # 0
  /\ Commits
  /\ OpGoes("tidy")
  /\ ResetKept
  /\ UNCHANGED <<mounted, used, wrote>>

(* The second rename fails: the old primary is put back.                   *)
RenameGoesBack ==
  /\ OpAt("commit") /\ SameBackend
  /\ AFault
  /\ SetTarget([Target EXCEPT !["bin"] = Target["bak"], !["bak"] = 0])
  /\ OpReturns
  /\ UNCHANGED current
  /\ ResetKept
  /\ UNCHANGED <<mounted, wrote>>

(* A backup that stays behind ("delete_failed") is OpStops.                *)
RenameTidies ==
  /\ OpAt("tidy") /\ SameBackend
  /\ SetTarget([Target EXCEPT !["bak"] = 0])
  /\ op' = AfterCommit
  /\ UNCHANGED current
  /\ ResetKept
  /\ UNCHANGED <<mounted, used, wrote>>

(* sd_finalize_lineage_for_generation: the marker is read back, and the    *)
(* fence on the device cleared if it is still up                           *)
(* (d1l_factory_reset_sd_lineage_clear).                                   *)
ReadBack ==
  /\ OpAt("readback") /\ SameBackend
  /\ op' = IF MarkerMatches(mounted) /\ fence[Store].active THEN [op EXCEPT !.pc = "clear"] ELSE IdleOp
  /\ CardsKept /\ ResetKept
  /\ UNCHANGED <<mounted, used, wrote>>

ClearFence ==
  /\ OpAt("clear")
  /\ \E out \in Outcomes :
       /\ Happens(out)
       /\ fence' = IF Applied(out) THEN [fence EXCEPT ![Store].active = FALSE] ELSE fence
  /\ OpReturns
  /\ CardsKept
  /\ UNCHANGED <<journal, domain, run, lifetime, blind, mounted, wrote>>

(* The card is taken out and another one put in: note_sd_backend.  (An     *)
(* empty slot admits no operation and is left out.)                        *)
Swap(c) ==
  /\ AtPc("running") /\ c # mounted
  /\ mounted' = c
  /\ op' = [op EXCEPT !.live = FALSE]
  /\ CardsKept /\ ResetKept
  /\ UNCHANGED <<used, wrote>>

OpStep ==
  \/ OpStops \/ Lineage \/ Delete \/ Put \/ RenamePlain \/ RenameDropsBackup
  \/ RenameAside \/ RenameCommits \/ RenameGoesBack \/ RenameTidies
  \/ ReadBack \/ ClearFence

-----------------------------------------------------------------------------
(* The reset's steps: no operation is under way when a reset is recorded   *)
(* (the bridge is quiesced), and none survives a power cut.                *)
ResetStep ==
  /\ \/ BootStep
     \/ op.pc = "idle"
          /\ \/ RequestRefused
             \/ \E out \in Outcomes : Request(out) \/ \E found \in SUBSET Fences : Repair(found, out)
     \/ SpoilJournal \/ \E s \in Fences : SpoilFence(s)
     \/ \E d \in Domains : SaveDomain(d)
  /\ blind' = (blind \/ (lifetime' # lifetime /\ \A s \in Fences : fence[s].gen >= journal'.gen))
  /\ UNCHANGED <<cards, mounted, op, wrote, current>>

Cut == PowerCut /\ op' = IdleOp /\ UNCHANGED <<cards, mounted, wrote, current, blind>>

CardNext ==
  \/ ResetStep \/ Cut
  \/ BeginWrite \/ BeginErase \/ OpStep
  \/ \E c \in Cards : Swap(c)

CardSpec == CardInit /\ [][CardNext]_cardVars

-----------------------------------------------------------------------------
OpLabels == {"idle", "lineage", "delete", "put", "rename", "aside", "commit", "tidy",
             "readback", "clear"}

CardTypeOK ==
  /\ ResetTypeOK
  /\ cards \in [Cards -> [data : [Files -> 0 .. MaxSaves + 1], marker : [Files -> 0 .. MaxGeneration]]]
  /\ mounted \in Cards
  /\ op \in [pc : OpLabels, kind : {"none", "write", "erase", "new_write", "new_erase"},
             on : {"data", "marker"}, i : 1 .. 3, n : 0 .. MaxSaves + 1, live : BOOLEAN]
  /\ wrote \in [Saves -> Nat]
  /\ current \in [Cards -> 0 .. MaxSaves + 1]
  /\ blind \in BOOLEAN

(* When the producers run, nothing that was saved before the last recorded *)
(* reset is left: no domain, and nothing a card would show, whichever card *)
(* is put in and wherever power failed ("Factory reset fences old drafts   *)
(* without formatting the card", docs/USER_GUIDE_D1L.md:111).  Cards are   *)
(* excepted once a repair has read no lineage record, or only old ones, and*)
(* numbers its reset behind all of them (next_sd_lineage_generation): an   *)
(* old card's marker may carry that number already.                        *)
NothingOfAnEarlierLifetime ==
  AtPc("running") =>
    /\ \A d \in Domains : domain[d] \in {0, lifetime}
    /\ ~blind => \A c \in Cards : Shown(c) # 0 => wrote[Shown(c)] = lifetime

(* Nothing that was saved since the last reset is lost but by an erase: a  *)
(* completed reset is never repeated ("Never replay it against             *)
(* subsequently saved data"), no admitted card is purged.                  *)
OnlyAnEraseForgets ==
  [][/\ \A d \in Domains : domain[d] # 0 /\ domain'[d] = 0 => domain[d] < lifetime
     /\ \A c \in Cards :
          Shown(c) # 0 /\ Shown(c)' = 0 =>
            \/ op.kind = "erase" /\ c = mounted
            \/ lifetime' # lifetime \/ wrote[Shown(c)] < lifetime
            \/ ~fence'[Store].ok]_cardVars

(* A power cut, a failed command or a swap leaves the old value or the new *)
(* one: what a read of the files finds was committed last, is never older  *)
(* and does not come back after an erase ("power interruption always       *)
(* yields old valid or new valid state", the completion roadmap, line 1240)*)
ReadsTheLastCommit == \A c \in Cards : Found(cards[c].data) = current[c]
=============================================================================
