--------------------------- MODULE ToolchainMemory ---------------------------
(***************************************************************************)
(* The cache of a repository's build, test, lint and typecheck commands    *)
(* (packages/memory/src/toolchain-memory.ts).  Every run reads it, and     *)
(* derives it anew when the manifest files have changed or a fact is       *)
(* stale; a run that finds a command missing marks its fact stale; the     *)
(* user forgets and corrects facts.  Each of those loads the file, changes *)
(* its copy and writes the file again, and nothing locks it.               *)
(*                                                                         *)
(* A run hashes the manifests of the tree it verifies (the committed ones, *)
(* in a worktree); `correct` hashes those of the user's own tree.          *)
(***************************************************************************)
EXTENDS Naturals

CONSTANTS
  Keys,        \* the facts: "build", "test", ...
  Manifests,   \* states of the manifest files
  Commands,    \* what a fact may say
  Detected,    \* what detectToolchain finds: manifest -> partial function of Keys
  Guides,      \* AGENTS.md files, as the overrides they make
  Clients,     \* processes
  MaxOps,      \* bound: operations on the memory, and edits of what it is derived from
  NoHash,      \* the hash "", of no manifest
  NoRecord,    \* no file, or one that does not parse
  Nothing

\* Some of the commands; the facts and the records that remember them.  `guide`
\* is history, and in no file: the AGENTS.md a record was derived with.
CommandSets == UNION {[K -> Commands] : K \in SUBSET Keys}
FactSets == UNION {[K -> [value : Commands, source : {"detected", "human"}, stale : BOOLEAN]] :
                   K \in SUBSET Keys}
Records == [hash : Manifests \cup {NoHash}, facts : FactSets, guide : Guides]

ASSUME ToolchainMemoryAssumption ==
  /\ NoHash \notin Manifests /\ MaxOps \in Nat
  /\ Detected \in [Manifests -> CommandSets]
  /\ Guides \subseteq CommandSets
  /\ NoRecord \notin Records

VARIABLES
  committed,   \* the manifests a worktree is made with
  tree,        \* the manifests of the user's tree
  guide,       \* AGENTS.md, as committed
  record,      \* the cache file
  client,      \* what each process is doing, and the copy it loaded
  ops,         \* how many operations and edits there were
  served,      \* the facts a run has just been given
  kept         \* history: the corrections nothing has yet given a reason to drop,
               \* and the manifests they were made under

memoryVars == <<committed, tree, guide, record, client, ops, served, kept>>

Counted == ops < MaxOps /\ ops' = ops + 1

Resting == [op |-> "none"]
NoneSaid == [k \in Keys |-> Nothing]
Said == IF kept = Nothing THEN NoneSaid ELSE kept.said

MemoryInit ==
  /\ committed \in Manifests /\ tree = committed
  /\ guide \in Guides
  /\ record = NoRecord
  /\ client = [c \in Clients |-> Resting]
  /\ ops = 0 /\ served = Nothing
  /\ kept = Nothing

-----------------------------------------------------------------------------
(* detectToolchain with applyAgentsMdOverrides, and the facts it makes. *)

Override(f, g) == [k \in DOMAIN f \cup DOMAIN g |-> IF k \in DOMAIN g THEN g[k] ELSE f[k]]

Fact(v, how) == [value |-> v, source |-> how, stale |-> FALSE]

CommandsToFacts(f) == [k \in DOMAIN f |-> Fact(f[k], "detected")]
FactsToCommands(f) == [k \in DOMAIN f |-> f[k].value]

Hit(r, hash) ==
  /\ r # NoRecord /\ r.hash = hash
  /\ \A k \in DOMAIN r.facts : ~r.facts[k].stale

-----------------------------------------------------------------------------
(* Loading: every operation begins with its own copy of the file. *)

InUse == \E c \in Clients : client[c] # Resting
Loads(c, op, k, v) ==
  /\ client[c] = Resting /\ Counted
  /\ client' = [client EXCEPT ![c] = [op |-> op, key |-> k, value |-> v, copy |-> record]]
  /\ kept' = IF InUse THEN Nothing ELSE kept
  /\ served' = Nothing
  /\ UNCHANGED <<committed, tree, guide, record>>

Done(c) == client' = [client EXCEPT ![c] = Resting]

\* getOrDetectToolchain
LoadsForRun(c) == Loads(c, "get", Nothing, Nothing)

Gets(c) ==
  LET hit == Hit(client[c].copy, committed)
      derived == Override(Detected[committed], guide) IN
  /\ client[c].op = "get"
  /\ IF hit
     THEN /\ served' = [facts |-> client[c].copy.facts, cached |-> TRUE,
                        guide |-> client[c].copy.guide]
          /\ UNCHANGED <<record, kept>>
     ELSE /\ served' = [facts |-> CommandsToFacts(derived), cached |-> FALSE, guide |-> guide]
          /\ record' = [hash |-> committed, facts |-> CommandsToFacts(derived), guide |-> guide]
          /\ kept' = Nothing
  /\ Done(c)
  /\ UNCHANGED <<committed, tree, guide, ops>>

\* markToolchainFactStale: of a command the OS did not find
MarksStale(c) ==
  LET copy == client[c].copy IN
  /\ client[c].op = "stale"
  /\ IF copy # NoRecord /\ client[c].key \in DOMAIN copy.facts
     THEN /\ record' = [copy EXCEPT !.facts[client[c].key].stale = TRUE]
          /\ kept' = Nothing
     ELSE UNCHANGED <<record, kept>>
  /\ Done(c)
  /\ served' = Nothing
  /\ UNCHANGED <<committed, tree, guide, ops>>

\* Mutant: the fact goes and the record still counts as complete.
ForgetsSilently(c) ==
  LET copy == client[c].copy IN
  /\ client[c].op = "forget"
  /\ IF copy # NoRecord /\ client[c].key \in DOMAIN copy.facts
     THEN /\ record' = [copy EXCEPT !.facts = [k \in DOMAIN @ \ {client[c].key} |-> @[k]]]
          /\ kept' = Nothing
     ELSE UNCHANGED <<record, kept>>
  /\ Done(c)
  /\ served' = Nothing
  /\ UNCHANGED <<committed, tree, guide, ops>>

\* forgetToolchainFact
Forgets(c) ==
  LET copy == client[c].copy IN
  /\ client[c].op = "forget"
  /\ IF copy # NoRecord /\ client[c].key \in DOMAIN copy.facts
     THEN /\ record' = [copy EXCEPT
                          !.hash = NoHash,
                          !.facts = [k \in DOMAIN copy.facts \ {client[c].key} |-> copy.facts[k]]]
          /\ kept' = Nothing
     ELSE UNCHANGED <<record, kept>>
  /\ Done(c)
  /\ served' = Nothing
  /\ UNCHANGED <<committed, tree, guide, ops>>

\* Mutant: the record keeps the hash it had.
CorrectsUnstamped(c) ==
  LET k == client[c].key
      copy == IF client[c].copy = NoRecord
              THEN [hash |-> NoHash, facts |-> <<>>, guide |-> guide]
              ELSE client[c].copy IN
  /\ client[c].op = "correct"
  /\ record' = [copy EXCEPT !.facts = [j \in DOMAIN @ \cup {k} |->
                  IF j = k THEN Fact(client[c].value, "human") ELSE @[j]]]
  /\ Done(c)
  /\ kept' = IF InUse' THEN Nothing
             ELSE [under |-> tree, said |-> [NoneSaid EXCEPT ![k] = client[c].value]]
  /\ served' = Nothing
  /\ UNCHANGED <<committed, tree, guide, ops>>

\* correctToolchainFact
Corrects(c) ==
  LET k == client[c].key
      v == client[c].value
      facts == IF client[c].copy = NoRecord THEN <<>> ELSE client[c].copy.facts
      anyStale == \E j \in DOMAIN facts \ {k} : facts[j].stale IN
  /\ client[c].op = "correct"
  /\ record' = [hash  |-> tree,
                facts |-> [j \in DOMAIN facts \cup {k} |->
                             IF j = k THEN Fact(v, "human") ELSE facts[j]],
                guide |-> IF client[c].copy = NoRecord THEN guide ELSE client[c].copy.guide]
  /\ kept' = IF anyStale \/ \E d \in Clients \ {c} : client[d] # Resting
             THEN Nothing
             ELSE [under |-> tree, said |-> [Said EXCEPT ![k] = v]]
  /\ Done(c)
  /\ served' = Nothing
  /\ UNCHANGED <<committed, tree, guide, ops>>

\* A process dies; its write is a plain one, and may leave half a file.
MemoryDies(c) ==
  /\ client[c] # Resting
  /\ Done(c)
  /\ \/ UNCHANGED <<record, kept>>
     \/ record' = NoRecord /\ kept' = Nothing
  /\ served' = Nothing
  /\ UNCHANGED <<committed, tree, guide, ops>>

-----------------------------------------------------------------------------
(* The user. *)

EditsManifest ==
  /\ tree' \in Manifests \ {tree} /\ Counted
  /\ UNCHANGED <<committed, guide, record, client, kept>>
  /\ served' = Nothing

CommitsManifest ==
  /\ committed # tree
  /\ committed' = tree /\ Counted
  /\ UNCHANGED <<tree, guide, record, client, kept>>
  /\ served' = Nothing

EditsGuide ==
  /\ guide' \in Guides \ {guide} /\ Counted
  /\ UNCHANGED <<committed, tree, record, client, kept>>
  /\ served' = Nothing

MemoryNext ==
  \/ EditsManifest \/ CommitsManifest \/ EditsGuide
  \/ \E c \in Clients :
       \/ LoadsForRun(c) \/ Gets(c) \/ MarksStale(c) \/ Forgets(c) \/ Corrects(c)
       \/ MemoryDies(c)
       \/ \E k \in Keys : \/ Loads(c, "stale", k, Nothing) \/ Loads(c, "forget", k, Nothing)
                          \/ \E v \in Commands : Loads(c, "correct", k, v)

MemorySpec == MemoryInit /\ [][MemoryNext]_memoryVars

-----------------------------------------------------------------------------
(* Properties *)

MemoryTypeOK ==
  /\ {committed, tree} \subseteq Manifests /\ guide \in Guides /\ ops \in 0..MaxOps
  /\ record # NoRecord => record \in Records
  /\ served # Nothing => served.facts \in FactSets

\* What a run is given from the cache, and no human touched, is what deriving it
\* again from the manifests it verifies would give, with AGENTS.md as it was when
\* the record was derived: no hole, no fact of another manifest, none marked
\* stale, whatever other processes forgot, marked and derived at the same time
\* (toolchain-memory.ts:13-21).  AGENTS.md is not hashed, so its commands win
\* only from the next derivation on: an edit of it that finds a valid record is
\* not seen, although toolchain.ts:14 says that they win.
IsFresh(run) ==
  run.cached /\ (\A k \in DOMAIN run.facts : run.facts[k].source # "human") =>
    FactsToCommands(run.facts) = Override(Detected[committed], run.guide)

\* A human's correction is what every run is given whose manifests are those the
\* user's tree had when it was made (one made over uncommitted manifests
\* counts from their commit on), until a run with other manifests derives the
\* record anew, a fact is forgotten or found stale, or another process was at
\* work on the file (toolchain-memory.ts:22-25, 216-229).
HasCorrections(run) ==
  kept # Nothing /\ kept.under = committed =>
    \A k \in Keys : kept.said[k] # Nothing =>
      k \in DOMAIN run.facts /\ run.facts[k].value = kept.said[k]

\* Every run that starts is given what its manifests say and what a human
\* corrected, as far as the two statements above go.
MemoryIsCurrent ==
  [][served' # Nothing /\ served' # served =>
       IsFresh(served') /\ HasCorrections(served')]_memoryVars
=============================================================================
