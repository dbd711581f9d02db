------------------------------ MODULE Capability ------------------------------
(***************************************************************************)
(* What a model can do, as the project measures and uses it: the probe     *)
(* (`agent models probe`) runs its checks one request after another and    *)
(* saves a profile, one file per model; a run loads the profile, or falls  *)
(* back to the provider's defaults, and takes from it its context budget   *)
(* and its way of editing.  Several processes probe and start runs.        *)
(*                                                                         *)
(* Accuracies are counts of successful trials.  A request that fails reads *)
(* as an empty reply, and an empty reply fails its check.                  *)
(***************************************************************************)
EXTENDS Naturals, Sequences, Functions, FiniteSetsExt, SequencesExt

CONSTANTS
  Models,
  FileOf,          \* the profile file of a model: two may share one
  Rungs,           \* defaultContextRungs: haystacks, in characters, ascending
  ReportedSizes,   \* what a reply may say its request had, in tokens
  DefaultContext,  \* approxEffectiveContext of the provider, in tokens
  ConstrainedDecode, \* what the provider says of constrained decoding
  Trials,          \* trials of each scored check
  TrialOutcomes,   \* [source, applied]: how a trial's edit arrived, and whether it applied
  Probers,         \* processes that probe
  MaxProbes,       \* bound: probes of a behaviour
  Missed,          \* a needle that was not found
  NoProfile, EmptyProfile, NoRun  \* no file, a file cut short to nothing, no run yet

ASSUME CapabilityAssumption ==
  /\ Rungs \in Seq(Nat) /\ Len(Rungs) > 0 /\ ReportedSizes \subseteq Nat
  /\ DefaultContext \in Nat \ {0} /\ Trials \in Nat \ {0}
  /\ ConstrainedDecode \in BOOLEAN /\ MaxProbes \in Nat

Files == {FileOf[m] : m \in Models}

VARIABLES
  profiles,  \* the files of the models directory
  probes,    \* the probe each process is running
  probed,    \* how many have been started
  started    \* what the last run that was started got
capabilityVars == <<profiles, probes, probed, started>>

NotProbing == [stage |-> "idle", model |-> NoProfile, accuracy |-> 0, transport |-> "none",
         context |-> 0, recalled |-> <<>>]

CapabilityInit ==
  /\ profiles = [f \in Files |-> NoProfile]
  /\ probes = [p \in Probers |-> NotProbing]
  /\ probed = 0
  /\ started = NoRun

-----------------------------------------------------------------------------
(* The probe. *)

\* loadCapabilityProfile: an empty file parses as a profile without fields.
Saved(m) == profiles[FileOf[m]]

\* Without --force an existing profile is returned as it is.
ProbeModel(p, m, force) ==
  /\ probes[p].stage = "idle" /\ probed < MaxProbes
  /\ force \/ Saved(m) = NoProfile
  /\ probes' = [probes EXCEPT ![p] = [NotProbing EXCEPT !.stage = "edits", !.model = m]]
  /\ probed' = probed + 1
  /\ UNCHANGED <<profiles, started>>

\* The transport most trials used, of those whose reply could be parsed.
DeriveToolTransport(trials) ==
  LET count(s) == Quantify(DOMAIN trials, LAMBDA i : trials[i].source = s)
  IN IF count("native") = 0 /\ count("json-mode-only") = 0 THEN "none"
     ELSE IF count("native") >= count("json-mode-only") THEN "native" ELSE "json-mode-only"

RunDiffAccuracyTrials(p) ==
  /\ probes[p].stage = "edits"
  /\ \E trials \in [1..Trials -> TrialOutcomes] :
       probes' = [probes EXCEPT
         ![p].accuracy = Quantify(DOMAIN trials, LAMBDA i : trials[i].applied),
         ![p].transport = DeriveToolTransport(trials),
         ![p].stage = "context"]
  /\ UNCHANGED <<profiles, probed, started>>

\* The sizes a rung may confirm: what the reply reports, or a quarter of it.
Confirms(rung) == ReportedSizes \cup {(rung + 2) \div 4}

\* Mutant: the ladder is climbed past a rung that was missed.
ClimbsOn(probe, found) ==
  IF Len(probe.recalled) + 1 = Len(Rungs) THEN "save" ELSE "context"

\* The ladder ends at its top or at the first needle that is missed.
NextStage(probe, found) ==
  IF found # Missed /\ Len(probe.recalled) + 1 < Len(Rungs) THEN "context" ELSE "save"

\* One haystack; after the last the loop check, which is only reported.
CheckEffectiveContext(p) ==
  LET probe == probes[p]
      rung == Rungs[Len(probe.recalled) + 1]
  IN /\ probe.stage = "context"
     /\ \E found \in Confirms(rung) \cup {Missed} :
          probes' = [probes EXCEPT
            ![p].context = IF found = Missed THEN @ ELSE found,
            ![p].recalled = Append(@, found),
            ![p].stage = NextStage(probe, found)]
     /\ UNCHANGED <<profiles, probed, started>>

\* The file is truncated, then written.
SaveTruncates(p) ==
  /\ probes[p].stage = "save"
  /\ profiles' = [profiles EXCEPT ![FileOf[probes[p].model]] = EmptyProfile]
  /\ probes' = [probes EXCEPT ![p].stage = "write"]
  /\ UNCHANGED <<probed, started>>

SaveWrites(p) ==
  /\ probes[p].stage = "write"
  /\ profiles' = [profiles EXCEPT
       ![FileOf[probes[p].model]] = [probes[p] EXCEPT !.stage = "idle"]]
  /\ probes' = [probes EXCEPT ![p] = NotProbing]
  /\ UNCHANGED <<probed, started>>

ProberStops(p) ==
  /\ probes[p].stage # "idle"
  /\ probes' = [probes EXCEPT ![p] = NotProbing]
  /\ UNCHANGED <<profiles, probed, started>>

-----------------------------------------------------------------------------
(* A run that starts. *)

\* The accuracy an unprobed model is taken to have, in percent.
UnprobedDiffAccuracy == 75

\* resolveCapability.
ResolveCapability(m) ==
  IF Saved(m) = NoProfile
  THEN [context |-> DefaultContext, percent |-> UnprobedDiffAccuracy]
  ELSE [context |-> Saved(m).context, percent |-> (100 * Saved(m).accuracy) \div Trials]

Percents == [systemAndTools |-> 15, repoMapRetrieval |-> 20, openFileWindows |-> 30,
             conversationHistory |-> 25, reservedOutput |-> 10]

\* Each segment's share, and to the reserved output what rounding leaves.
ComputeContextBudget(context) ==
  LET share == [k \in DOMAIN Percents |-> (context * Percents[k]) \div 100]
  IN [share EXCEPT !.reservedOutput = @ + context - SumFunction(share)]

\* 400 lines at a context of 8000, within 100 and 4000.
WholeFileLocCap(context) == Max({100, Min({(context + 10) \div 20, 4000})})

SelectEditFormat(c, isNew, loc) ==
  IF ConstrainedDecode /\ c.percent >= 85 THEN "enforced search-replace"
  ELSE IF c.percent >= 75 THEN "search-replace"
  ELSE IF isNew \/ loc <= WholeFileLocCap(c.context) THEN "whole-file"
  ELSE IF c.percent >= 50 THEN "reminded search-replace"
  ELSE "chunked whole-file"

\* The one rule of the prompt, from a new file and a large one.
EditFormatGuidance(c) ==
  [small |-> SelectEditFormat(c, TRUE, 0),
   large |-> SelectEditFormat(c, FALSE, WholeFileLocCap(c.context) + 1)]

\* No budget can be computed of no context.
Budgets(m) == Saved(m) # EmptyProfile /\ ResolveCapability(m).context > 0

StartRun(m) ==
  /\ Budgets(m)
  /\ LET c == ResolveCapability(m)
     IN started' = [model |-> m, profile |-> Saved(m), refused |-> FALSE,
                    budget |-> ComputeContextBudget(c.context),
                    guidance |-> EditFormatGuidance(c)]
  /\ UNCHANGED <<profiles, probes, probed>>

\* The loop cannot be built: the run fails before its first step.
RefuseRun(m) ==
  /\ ~Budgets(m)
  /\ started' = [model |-> m, profile |-> Saved(m), refused |-> TRUE]
  /\ UNCHANGED <<profiles, probes, probed>>

CapabilityNext ==
  \/ \E p \in Probers :
       \/ \E m \in Models, force \in BOOLEAN : ProbeModel(p, m, force)
       \/ RunDiffAccuracyTrials(p) \/ CheckEffectiveContext(p)
       \/ SaveTruncates(p) \/ SaveWrites(p) \/ ProberStops(p)
  \/ \E m \in Models : StartRun(m) \/ RefuseRun(m)

CapabilitySpec == CapabilityInit /\ [][CapabilityNext]_capabilityVars

-----------------------------------------------------------------------------
(* Properties. *)

\* The variables have their types.
CapabilityTypeOK ==
  /\ \A p \in Probers :
       /\ probes[p].stage \in {"idle", "edits", "context", "save", "write"}
       /\ Len(probes[p].recalled) <= Len(Rungs)
       /\ probes[p].accuracy \in 0..Trials
  /\ probed \in 0..MaxProbes

\* What a profile says was confirmed: every haystack up to one was recalled, it
\* is the last of the ladder or the next was missed, and the context is its.
ConfirmsContext(profile, context) ==
  \E k \in DOMAIN profile.recalled :
    /\ context = profile.recalled[k]
    /\ \A i \in 1..k : profile.recalled[i] # Missed
    /\ k < Len(Rungs) => /\ k + 1 = Len(profile.recalled)
                         /\ profile.recalled[k + 1] = Missed

\* Another model's id makes the same file name: safeFileName tells `a/b` from
\* `a_b` no more than `a//b`, so one file per model id (store.ts:10) is not kept.
SharesItsFile(m) == \E other \in Models \ {m} : FileOf[other] = FileOf[m]

\* A run works within what its model was seen to recall, whoever probed it and
\* whatever was interrupted: its segments are the whole of the context one
\* completed probe of that model confirmed (of a model with the same file name,
\* if there is one), or of the default if there was none, and none but the
\* reserve exceeds its share.  A run is refused only if the last probe recalled
\* nothing at all, was told that it had sent nothing, or left no profile in its
\* file; FailedProbesFallBack is about those.
RunFitsItsModel ==
  started # NoRun =>
    LET profile == started.profile
        context == SumFunction(started.budget)
    IN IF started.refused
       THEN \/ profile = EmptyProfile
            \/ profile.recalled = <<Missed>> \/ 0 \in Range(profile.recalled)
       ELSE /\ IF profile = NoProfile THEN context = DefaultContext
               ELSE /\ \/ profile.model = started.model
                       \/ /\ SharesItsFile(started.model)
                          /\ FileOf[profile.model] = FileOf[started.model]
                    /\ ConfirmsContext(profile, context)
            /\ \A k \in DOMAIN Percents \ {"reservedOutput"} :
                 100 * started.budget[k] <= context * Percents[k]
            /\ started.guidance.small = "whole-file" <=>
                 started.guidance.large \in {"reminded search-replace",
                                             "chunked whole-file"}

\* A run falls back to the provider's static defaults if the probe of its model
\* failed (resolve.ts:8-9, PROJECT_SPEC.md:1502): one that recalled nothing, as
\* when every request failed, leaves the next run the default context.
FailedProbesFallBack ==
  /\ started # NoRun /\ started.profile \notin {NoProfile, EmptyProfile}
  /\ started.profile.recalled = <<Missed>>
  => ~started.refused /\ SumFunction(started.budget) = DefaultContext
=============================================================================
