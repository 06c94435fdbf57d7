---------------------------- MODULE FactoryReset -----------------------------
(***************************************************************************)
(* The factory reset (main/storage/factory_reset.c) and how the firmware   *)
(* boots (main/app_main.c).  A confirmed reset is only a journal entry in  *)
(* NVS; the next boot erases the user's domains one after the other,       *)
(* before anything that could write them again is started, and moves the   *)
(* lineage generation of every store that keeps data on a card, which      *)
(* fences the cards' old contents (CardStore).  An entry that cannot be    *)
(* read stops the boot in a recovery console, where the user may replace   *)
(* it.  Power may fail between any two steps.                              *)
(***************************************************************************)
EXTENDS Integers, FiniteSets, FiniteSetsExt

CONSTANTS
  DomainCount,      \* D1L_FACTORY_RESET_CLEAR_DOMAIN_COUNT
  FenceCount,       \* D1L_FACTORY_RESET_SD_STORE_COUNT
  MaxGeneration,    \* UINT32_MAX
  MaxFaults,        \* bounds of the model: NVS errors and damage,
  MaxCuts,          \* power cuts,
  MaxSaves          \* saves and erases of user data

ASSUME ResetAssumption ==
  /\ DomainCount \in Nat \ {0} /\ FenceCount \in Nat \ {0} /\ MaxGeneration \in Nat \ {0}
  /\ MaxFaults \in Nat /\ MaxCuts \in Nat /\ MaxSaves \in Nat

VARIABLES
  journal,    \* the entry in NVS: what is loaded of it, its generation
  fence,      \* each store's lineage record: generation, active, readable
  domain,     \* each domain: 0 when absent, else the lifetime that wrote it
  run,        \* where the firmware is; the domain or store at hand; the
              \*   generation of the entry it processes
  used,       \* what of the bounds is used
  lifetime    \* ghost: 1 + the resets that were ever recorded

resetVars == <<journal, fence, domain, run, used, lifetime>>

Domains == 1 .. DomainCount
Fences == 1 .. FenceCount

NoEntry == [st |-> "ABSENT", gen |-> 0]
Entry(st, gen) == [st |-> st, gen |-> gen]

ResetInit ==
  /\ journal = NoEntry
  /\ fence = [s \in Fences |-> [gen |-> 0, active |-> FALSE, ok |-> TRUE]]
  /\ domain = [d \in Domains |-> 1]
  /\ run = [pc |-> "running", i |-> 1, gen |-> 0]
  /\ used = [faults |-> 0, cuts |-> 0, saves |-> 0]
  /\ lifetime = 1

AtPc(label) == run.pc = label
GoesTo(label) == run' = [run EXCEPT !.pc = label]
StopsInRecovery == run' = [pc |-> "recovery", i |-> 1, gen |-> 0]

(* A write to NVS: it succeeds, fails, or fails after it was applied.      *)
Outcomes == {"ok", "lost", "late"}
Applied(out) == out # "lost"
AFault == used.faults < MaxFaults /\ used' = [used EXCEPT !.faults = @ + 1]
Happens(out) == IF out = "ok" THEN UNCHANGED used ELSE AFault

-----------------------------------------------------------------------------
(* The boot.  A damaged, newer or unreadable entry starts no producer.     *)
PowerOn ==
  /\ AtPc("off")
  /\ GoesTo("inspect")
  /\ UNCHANGED <<journal, fence, domain, used, lifetime>>

Quarantine ==
  /\ run.pc \in {"inspect", "resume"}
  /\ \/ journal.st = "BAD" /\ UNCHANGED used
     \/ AFault
  /\ StopsInRecovery
  /\ UNCHANGED <<journal, fence, domain, lifetime>>

Inspect ==
  /\ AtPc("inspect") /\ journal.st # "BAD"
  /\ GoesTo("resume")
  /\ UNCHANGED <<journal, fence, domain, used, lifetime>>

(* d1l_factory_reset_resume.                                               *)
ResumeNothing ==
  /\ AtPc("resume") /\ journal.st = "ABSENT"
  /\ GoesTo("running")
  /\ UNCHANGED <<journal, fence, domain, used, lifetime>>

ResumeCleans(out) ==
  /\ AtPc("resume") /\ journal.st = "COMPLETE"
  /\ Happens(out)
  /\ journal' = IF Applied(out) THEN NoEntry ELSE journal
  /\ IF out = "ok" THEN GoesTo("running") ELSE StopsInRecovery
  /\ UNCHANGED <<fence, domain, lifetime>>

ReplayedToo == {"ACTIVE", "COMPLETE"}            \* mutant: a completed reset is done again
Replayed == {"ACTIVE"}

(* prepare_retry: from the first domain, whatever the entry's progress.    *)
ResumeReplays(out) ==
  /\ AtPc("resume") /\ journal.st \in Replayed
  /\ Happens(out)
  /\ IF out = "ok" THEN run' = [pc |-> "arm", i |-> 1, gen |-> journal.gen] ELSE StopsInRecovery
  /\ journal' = IF Applied(out) THEN Entry("ACTIVE", journal.gen) ELSE journal
  /\ UNCHANGED <<fence, domain, lifetime>>

(* process_active_journal: arm_sd_lineage, store by store ...              *)
ArmedAlready(s) == fence[s] = [gen |-> run.gen, active |-> TRUE, ok |-> TRUE]
NextFence ==
  run' = IF run.i < FenceCount THEN [run EXCEPT !.i = @ + 1]
         ELSE [run EXCEPT !.pc = "erase", !.i = 1]

Arm(out) ==
  /\ AtPc("arm")
  /\ ~ArmedAlready(run.i)
  /\ Happens(out)
  /\ fence' = IF Applied(out)
              THEN [fence EXCEPT ![run.i] = [gen |-> run.gen, active |-> TRUE, ok |-> TRUE]]
              ELSE fence
  /\ IF out = "ok" THEN NextFence ELSE StopsInRecovery
  /\ UNCHANGED <<journal, domain, lifetime>>

ArmSkips ==
  /\ AtPc("arm")
  /\ ArmedAlready(run.i)
  /\ NextFence
  /\ UNCHANGED <<journal, fence, domain, used, lifetime>>

(* ... then the domains: an erase, and the progress.  An erase that fails  *)
(* is noted in the entry, which stays active.                              *)
EraseDomain(out) ==
  /\ AtPc("erase")
  /\ Happens(out)
  /\ domain' = IF Applied(out) THEN [domain EXCEPT ![run.i] = 0] ELSE domain
  /\ GoesTo(IF out = "ok" THEN "progress" ELSE "note")
  /\ UNCHANGED <<journal, fence, lifetime>>

NoteFailure(out) ==
  /\ AtPc("note")
  /\ Happens(out)
  /\ journal' = IF Applied(out) THEN Entry("ACTIVE", run.gen) ELSE journal
  /\ StopsInRecovery
  /\ UNCHANGED <<fence, domain, lifetime>>

Phase(i) == IF i = DomainCount THEN "COMPLETE" ELSE "ACTIVE"

Progress(out) ==
  /\ AtPc("progress")
  /\ Happens(out)
  /\ journal' = IF Applied(out) THEN Entry(Phase(run.i), run.gen) ELSE journal
  /\ IF out # "ok" THEN StopsInRecovery
     ELSE run' = IF run.i < DomainCount THEN [run EXCEPT !.pc = "erase", !.i = @ + 1]
                 ELSE [pc |-> "running", i |-> 1, gen |-> 0]
  /\ UNCHANGED <<fence, domain, lifetime>>

-----------------------------------------------------------------------------
(* A reset is asked for (d1l_factory_reset_request, which                  *)
(* cmd_factory_reset_confirm calls with every producer quiesced; it then   *)
(* restarts, whatever the outcome) ...                                     *)
NextGeneration(S) == Max({fence[s].gen : s \in S} \cup {0}) + 1

Records(out, gen) ==
  /\ journal' = IF Applied(out) THEN Entry("ACTIVE", gen) ELSE journal
  /\ lifetime' = IF Applied(out) THEN lifetime + 1 ELSE lifetime

Request(out) ==
  /\ AtPc("running")
  /\ journal.st \in {"ABSENT", "COMPLETE"}
  /\ \A s \in Fences : fence[s].ok /\ fence[s].gen < MaxGeneration
  /\ Happens(out)
  /\ Records(out, NextGeneration(Fences))
  /\ GoesTo("restart")
  /\ UNCHANGED <<fence, domain>>

RequestRefused ==
  /\ AtPc("running")
  /\ \/ (\E s \in Fences : ~fence[s].ok \/ fence[s].gen = MaxGeneration) /\ UNCHANGED used
     \/ AFault
  /\ GoesTo("restart")
  /\ UNCHANGED <<journal, fence, domain, lifetime>>

(* ... and from the recovery console (d1l_factory_reset_repair_quarantined *)
(* and its caller): only over an entry that cannot be used or cannot be    *)
(* read, and with the lineage records that are read.                       *)
Readable == {s \in Fences : fence[s].ok}

Repair(found, out) ==
  /\ AtPc("recovery")
  /\ found \subseteq Readable /\ \A s \in found : fence[s].gen < MaxGeneration
  /\ IF journal.st = "BAD" /\ found = Readable THEN Happens(out) ELSE AFault
  /\ Records(out, NextGeneration(found))
  /\ IF Applied(out) THEN GoesTo("restart") ELSE UNCHANGED run
  /\ UNCHANGED <<fence, domain>>

-----------------------------------------------------------------------------
(* The firmware restarts, or the power fails.  Meanwhile a record may      *)
(* become unreadable (flash damage, another firmware).                     *)
Restart ==
  /\ run.pc \in {"restart", "recovery"}
  /\ GoesTo("off")
  /\ UNCHANGED <<journal, fence, domain, used, lifetime>>

PowerCut ==
  /\ run.pc \notin {"off", "recovery"}
  /\ used.cuts < MaxCuts
  /\ used' = [used EXCEPT !.cuts = @ + 1]
  /\ run' = [pc |-> "off", i |-> 1, gen |-> 0]
  /\ UNCHANGED <<journal, fence, domain, lifetime>>

SpoilJournal ==
  /\ AtPc("off") /\ AFault
  /\ journal' = Entry("BAD", 0)
  /\ UNCHANGED <<fence, domain, run, lifetime>>

SpoilFence(s) ==
  /\ AtPc("off") /\ AFault
  /\ fence' = [fence EXCEPT ![s].ok = FALSE]
  /\ UNCHANGED <<journal, domain, run, lifetime>>

(* A producer saves a domain.                                              *)
ASave == used.saves < MaxSaves /\ used' = [used EXCEPT !.saves = @ + 1]

SaveDomain(d) ==
  /\ AtPc("running") /\ domain[d] # lifetime
  /\ ASave
  /\ domain' = [domain EXCEPT ![d] = lifetime]
  /\ UNCHANGED <<journal, fence, run, lifetime>>

BootStep ==
  \/ PowerOn \/ Quarantine \/ Inspect \/ ResumeNothing \/ ArmSkips \/ Restart
  \/ \E out \in Outcomes :
       \/ ResumeCleans(out) \/ ResumeReplays(out) \/ Arm(out)
       \/ EraseDomain(out) \/ NoteFailure(out) \/ Progress(out)

-----------------------------------------------------------------------------
RunLabels == {"off", "inspect", "resume", "arm", "erase", "note", "progress",
              "running", "restart", "recovery"}

ResetTypeOK ==
  /\ journal \in [st : {"ABSENT", "ACTIVE", "COMPLETE", "BAD"}, gen : 0 .. MaxGeneration]
  /\ fence \in [Fences -> [gen : 0 .. MaxGeneration, active : BOOLEAN, ok : BOOLEAN]]
  /\ domain \in [Domains -> 0 .. lifetime]
  /\ run \in [pc : RunLabels, i : Domains \cup Fences, gen : 0 .. MaxGeneration]
  /\ used \in [faults : 0 .. MaxFaults, cuts : 0 .. MaxCuts, saves : 0 .. MaxSaves]
  /\ lifetime \in Nat \ {0}
=============================================================================
