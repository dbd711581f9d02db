------------------------------ MODULE StoreProofs ------------------------------
(***************************************************************************)
(* Proofs about what several processes keep in files that nothing locks:   *)
(* the credentials, for any accounts, secrets and processes; the memory of *)
(* a repository's commands, for any manifests and guides; and the profiles *)
(* of the models, for any ladder of haystacks and any trials.  And about   *)
(* the programs that start runs and tell what became of them: the editor,  *)
(* for any commands, and the evaluation, for any suites and arms.          *)
(***************************************************************************)
EXTENDS CredentialStore, ToolchainMemory, Capability, EditorClient, EvalHarness,
        SequenceTheorems, TLAPS

-----------------------------------------------------------------------------
(* The credential store.  What one process does between reading the file and *)
(* writing it is safe as long as nobody else is at it; the invariant says    *)
(* what each place of a process then knows of the file.                      *)

Secrets == Values \cup {NoValue}

WritingStates ==
  {AtRest}
  \cup [at : {"keychain", "key", "newkey"}, account : Accounts, value : Secrets]
  \cup [at : {"read"}, account : Accounts, value : Secrets, key : MachineKeys]
  \cup [at : {"write"}, account : Accounts, value : Secrets, key : MachineKeys,
        accounts : Stores]

CredentialTypes == CredentialTypeOK /\ writer \in [Writers -> WritingStates]

OneWriter == \A w, x \in Writers : Busy(w) /\ Busy(x) => w = x

StoredAccounts == IF store = NoStore THEN <<>> ELSE store.accounts

\* A writer that nobody raced with has the accounts of the file as it is.
RaceInv ==
  ~raced =>
    /\ OneWriter
    /\ \A w \in Writers : writer[w].at = "write" =>
         store # TornStore /\ writer[w].accounts = StoredAccounts

\* In calm times the file decrypts, and writers have the key.
CalmInv ==
  calm =>
    /\ ~raced
    /\ store # NoStore => Decrypts(machineKey)
    /\ \A w \in Writers :
         /\ writer[w].at \in {"key", "newkey", "read", "write"} => keychain = NoStore
         /\ writer[w].at = "newkey" => machineKey = NoKey
         /\ writer[w].at \in {"read", "write"} => writer[w].key = machineKey
    /\ \A a \in Accounts : ReadCredential(a) = saved[a]

CredentialInv == CredentialTypes /\ RaceInv /\ CalmInv

\* An empty keychain or file.
LEMMA EmptyStore == <<>> \in Stores /\ \A a : StoreGet(<<>>, a) = NoValue
<1>1. <<>> \in [{} -> Values] /\ DOMAIN <<>> = {}
  OBVIOUS
<1>2. QED
  BY <1>1 DEF Stores, StoreGet

\* Changing one account changes no other.
LEMMA WithFacts ==
  ASSUME NEW f \in Stores, NEW a \in Accounts, NEW v \in Secrets
  PROVE  /\ With(f, a, v) \in Stores
         /\ StoreGet(With(f, a, v), a) = v
         /\ \A b \in Accounts \ {a} :
              /\ StoreGet(With(f, a, v), b) = StoreGet(f, b)
              /\ b \in DOMAIN f => b \in DOMAIN With(f, a, v) /\ With(f, a, v)[b] = f[b]
<1> DEFINE D == IF v = NoValue THEN DOMAIN f \ {a} ELSE DOMAIN f \cup {a}
<1>1. PICK A \in SUBSET Accounts : f \in [A -> Values]
  BY DEF Stores
<1>2. With(f, a, v) = [b \in D |-> IF b = a THEN v ELSE f[b]]
  BY DEF With
<1>3. D \in SUBSET Accounts /\ With(f, a, v) \in [D -> Values]
  BY <1>1, <1>2 DEF Secrets
<1>4. With(f, a, v) \in Stores
  BY <1>3 DEF Stores
<1>5. QED
  BY <1>1, <1>2, <1>4 DEF StoreGet

LEMMA CredentialStart == CredentialInit => CredentialInv
<1> SUFFICES ASSUME CredentialInit PROVE CredentialInv
  OBVIOUS
<1>1. CredentialTypes
  BY EmptyStore DEF CredentialInit, CredentialTypes, CredentialTypeOK, WritingStates, AtRest
<1>2. \A w \in Writers : writer[w] = AtRest /\ writer[w].at = "rest"
  BY DEF CredentialInit, AtRest
<1>3. RaceInv
  BY <1>2 DEF RaceInv, OneWriter, Busy
<1>4. \A a \in Accounts : ReadCredential(a) = saved[a]
  BY EmptyStore, CredentialAssumption
     DEF CredentialInit, ReadCredential, FileStoreGet, Decrypts
<1>5. CalmInv
  BY <1>2, <1>4 DEF CalmInv, CredentialInit
<1>6. QED
  BY <1>1, <1>3, <1>5 DEF CredentialInv

\* A process does one thing, and the others stay where they are.
WriterStep(w) ==
  \/ \E a \in Accounts, v \in Secrets : Begins(w, a, v)
  \/ UsesKeychain(w) \/ LooksForKey(w) \/ MakesKey(w) \/ ReadsStore(w)
  \/ WritesStore(w) \/ WriterDies(w)

LEMMA OthersWrite ==
  ASSUME CredentialTypes, NEW w \in Writers, WriterStep(w)
  PROVE  \A x \in Writers \ {w} : writer'[x] = writer[x]
  BY DEF CredentialTypes, WriterStep, Begins, UsesKeychain, LooksForKey, MakesKey,
         ReadsStore, WritesStore, WriterDies, Moves

\* Every process stays somewhere, and the files stay what they may be.
LEMMA WriterTypes ==
  ASSUME CredentialTypes, NEW w \in Writers, WriterStep(w), raced' \in BOOLEAN
  PROVE  CredentialTypes'
<1> USE DEF CredentialTypes, CredentialTypeOK
<1>1. ASSUME NEW to \in WritingStates, Moves(w, to)
      PROVE  writer' \in [Writers -> WritingStates] /\ writer'[w] = to
  BY <1>1 DEF Moves
<1>r. AtRest \in WritingStates
  BY DEF WritingStates
<1>2. ASSUME NEW a \in Accounts, NEW v \in Secrets, Begins(w, a, v)
      PROVE  CredentialTypes'
  <2> DEFINE to == [at |-> IF keychain # NoStore THEN "keychain" ELSE "key",
                    account |-> a, value |-> v]
  <2>1. to \in WritingStates
    BY DEF WritingStates
  <2>2. QED
    BY <1>1, <1>2, <2>1 DEF Begins
<1>3. CASE UsesKeychain(w)
  <2>1. writer[w] \in WritingStates /\ writer[w].at = "keychain"
    BY <1>3 DEF UsesKeychain
  <2>2. writer[w].account \in Accounts /\ writer[w].value \in Secrets
    BY <2>1 DEF WritingStates, AtRest
  <2>3. keychain' \in Stores \cup {NoStore}
    BY <1>3, <2>2, WithFacts DEF UsesKeychain
  <2>4. saved' \in [Accounts -> Values \cup {NoValue}]
    BY <1>3, <2>2 DEF UsesKeychain, Succeeds, Secrets
  <2>5. QED
    BY <1>1, <1>3, <1>r, <2>3, <2>4 DEF UsesKeychain
<1>4. CASE LooksForKey(w)
  <2>1. writer[w] \in WritingStates /\ writer[w].at = "key"
    BY <1>4 DEF LooksForKey
  <2>2. writer[w] \in [at : {"keychain", "key", "newkey"}, account : Accounts, value : Secrets]
    BY <2>1 DEF WritingStates, AtRest
  <2> DEFINE to == IF machineKey = NoKey
                   THEN [writer[w] EXCEPT !.at = "newkey"]
                   ELSE [at |-> "read", account |-> writer[w].account,
                         value |-> writer[w].value, key |-> machineKey]
  <2>3. to \in WritingStates
    BY <2>2 DEF WritingStates
  <2>4. QED
    BY <1>1, <1>4, <2>3 DEF LooksForKey
<1>5. CASE MakesKey(w)
  <2>1. writer[w] \in WritingStates /\ writer[w].at = "newkey"
    BY <1>5 DEF MakesKey
  <2>2. writer[w].account \in Accounts /\ writer[w].value \in Secrets
    BY <2>1 DEF WritingStates, AtRest
  <2>3. [at |-> "read", account |-> writer[w].account,
         value |-> writer[w].value, key |-> machineKey'] \in WritingStates
    BY <1>5, <2>2 DEF WritingStates, MakesKey
  <2>4. QED
    BY <1>1, <1>5, <2>3 DEF MakesKey
<1>6. CASE ReadsStore(w)
  <2>1. writer[w] \in WritingStates /\ writer[w].at = "read"
    BY <1>6 DEF ReadsStore
  <2>2. /\ writer[w].account \in Accounts /\ writer[w].value \in Secrets
        /\ writer[w].key \in MachineKeys
    BY <2>1 DEF WritingStates, AtRest
  <2>3. PICK to : to \in WritingStates /\ Moves(w, to)
    <3> DEFINE accounts == IF store = NoStore THEN <<>> ELSE store.accounts
               to == [at |-> "write", account |-> writer[w].account,
                      value |-> writer[w].value, key |-> writer[w].key,
                      accounts |-> accounts]
    <3>1. CASE Moves(w, AtRest)
      BY <1>r, <3>1
    <3>2. CASE ~Undecryptable(writer[w].key) /\ Moves(w, to)
      <4>1. accounts \in Stores
        BY <3>2, EmptyStore DEF Undecryptable, Decrypts, Encrypted
      <4>2. to \in WritingStates
        BY <2>2, <4>1 DEF WritingStates
      <4>3. QED
        BY <3>2, <4>2
    <3>3. QED
      BY <1>6, <3>1, <3>2 DEF ReadsStore
  <2>4. QED
    BY <1>1, <1>6, <2>3 DEF ReadsStore
<1>7. CASE WritesStore(w)
  <2>1. writer[w] \in WritingStates /\ writer[w].at = "write"
    BY <1>7 DEF WritesStore
  <2>2. /\ writer[w].account \in Accounts /\ writer[w].value \in Secrets
        /\ writer[w].key \in MachineKeys /\ writer[w].accounts \in Stores
    BY <2>1 DEF WritingStates, AtRest
  <2>3. store' \in Encrypted
    BY <1>7, <2>2, WithFacts DEF WritesStore, Encrypted
  <2>4. saved' \in [Accounts -> Values \cup {NoValue}]
    BY <1>7, <2>2 DEF WritesStore, Succeeds, Secrets
  <2>5. QED
    BY <1>1, <1>7, <1>r, <2>3, <2>4 DEF WritesStore
<1>8. CASE WriterDies(w)
  BY <1>1, <1>8, <1>r DEF WriterDies
<1>9. QED
  BY <1>2, <1>3, <1>4, <1>5, <1>6, <1>7, <1>8 DEF WriterStep

\* What a process that steps may next be about to write: what it has read.
LEMMA StepToWrite ==
  ASSUME CredentialTypes, NEW w \in Writers, WriterStep(w), writer'[w].at = "write"
  PROVE  /\ UNCHANGED <<store, machineKey, saved, keychain, calm>>
         /\ writer[w].at = "read" /\ writer'[w].key = writer[w].key
         /\ store # NoStore => Decrypts(writer[w].key)
         /\ writer'[w].accounts = StoredAccounts
<1>1. \A to : Moves(w, to) => writer'[w] = to
  BY DEF CredentialTypes, Moves
<1>2. AtRest.at = "rest"
  BY DEF AtRest
<1>3. ASSUME NEW a \in Accounts, NEW v \in Secrets, Begins(w, a, v) PROVE FALSE
  BY <1>1, <1>3 DEF Begins
<1>4. ~UsesKeychain(w) /\ ~MakesKey(w) /\ ~WritesStore(w) /\ ~WriterDies(w)
  BY <1>1, <1>2 DEF UsesKeychain, MakesKey, WritesStore, WriterDies
<1>5. CASE LooksForKey(w)
  <2>1. writer[w] \in [at : {"keychain", "key", "newkey"}, account : Accounts, value : Secrets]
    BY <1>5 DEF LooksForKey, CredentialTypes, WritingStates, AtRest
  <2>2. QED
    BY <1>1, <1>5, <2>1 DEF LooksForKey
<1>6. CASE ReadsStore(w)
  BY <1>1, <1>2, <1>6 DEF ReadsStore, Undecryptable, StoredAccounts
<1>7. QED
  BY <1>3, <1>4, <1>5, <1>6 DEF WriterStep

\* A step of one process keeps what a writer nobody raced with knows.
LEMMA WriterRaces ==
  ASSUME CredentialInv, NEW w \in Writers, WriterStep(w), raced' = Raced
  PROVE  RaceInv'
<1> USE DEF CredentialInv
<1>1. \A x \in Writers \ {w} : writer'[x] = writer[x]
  BY OthersWrite
<1>2. SUFFICES ASSUME ~raced' PROVE RaceInv'
  BY DEF RaceInv
<1>3. OneWriter'
  BY <1>2 DEF Raced, OneWriter, Busy
<1>4. ASSUME NEW x \in Writers, writer'[x].at = "write"
      PROVE  store' # TornStore /\ writer'[x].accounts = StoredAccounts'
  <2>1. Busy(x)'
    BY <1>4 DEF Busy, AtRest
  <2>2. CASE x = w
    BY <1>4, <2>2, StepToWrite, CredentialAssumption DEF Decrypts, StoredAccounts
  <2>3. CASE x # w
    <3>1. writer[x] = writer'[x] /\ Busy(x) /\ ~Busy(w)' /\ ~raced
      BY <1>1, <1>2, <2>1, <2>3 DEF Raced, Busy
    <3>2. ~Busy(w)
      BY <2>3, <3>1 DEF RaceInv, OneWriter
    <3>3. FALSE
      BY <3>1, <3>2 DEF WriterStep, Begins, UsesKeychain, LooksForKey, MakesKey, ReadsStore,
         WritesStore, WriterDies, Busy, AtRest, Moves, CredentialTypes
    <3>4. QED
      BY <3>3
  <2>4. QED
    BY <2>2, <2>3
<1>5. QED
  BY <1>3, <1>4 DEF RaceInv

\* In calm times a process that steps is the only one.
LEMMA CalmStep ==
  ASSUME CredentialInv, NEW w \in Writers, WriterStep(w), calm', raced' = Raced
  PROVE  /\ calm /\ ~raced /\ ~raced'
         /\ \A x \in Writers \ {w} : writer[x] = AtRest /\ writer'[x] = AtRest
<1> USE DEF CredentialInv
<1>1. \A x \in Writers \ {w} : writer'[x] = writer[x]
  BY OthersWrite
<1>2. calm /\ (writer[w] = AtRest => \A x \in Writers : ~Busy(x))
  <2>1. CASE \E a \in Accounts, v \in Secrets : Begins(w, a, v)
    <3>1. calm' <=> calm /\ ~\E x \in Writers : Busy(x)
      BY <2>1, Zenon DEF Begins
    <3>2. QED
      BY <3>1
  <2>2. CASE UsesKeychain(w) \/ LooksForKey(w) \/ MakesKey(w) \/ ReadsStore(w) \/ WritesStore(w)
    <3>1. calm' = calm
      BY <2>2 DEF UsesKeychain, LooksForKey, MakesKey, ReadsStore, WritesStore
    <3>2. writer[w].at # "rest"
      BY <2>2 DEF UsesKeychain, LooksForKey, MakesKey, ReadsStore, WritesStore
    <3>3. calm
      BY <3>1, Zenon
    <3>4. QED
      BY <3>2, <3>3 DEF AtRest
  <2>3. CASE WriterDies(w)
    BY <2>3 DEF WriterDies
  <2>4. QED
    BY <2>1, <2>2, <2>3 DEF WriterStep
<1>3. ~raced /\ OneWriter
  BY <1>2 DEF CalmInv, RaceInv
<1>4. \A x \in Writers \ {w} : writer[x] = AtRest
  BY <1>2, <1>3 DEF OneWriter, Busy
<1>5. QED
  BY <1>1, <1>2, <1>3, <1>4 DEF Raced, Busy

\* What a write of one account makes of what is served.
LEMMA WriteServes ==
  ASSUME CredentialTypes, NEW a \in Accounts, NEW v \in Secrets,
         \A b \in Accounts : ReadCredential(b) = saved[b],
         saved' = [saved EXCEPT ![a] = v],
         ReadCredential(a)' = v,
         \A b \in Accounts \ {a} : ReadCredential(b)' = ReadCredential(b)
  PROVE  \A b \in Accounts : ReadCredential(b)' = saved'[b]
  BY DEF CredentialTypes, CredentialTypeOK

\* A step of one process in calm times serves what was saved.
LEMMA WriterCalm ==
  ASSUME CredentialInv, NEW w \in Writers, WriterStep(w), raced' = Raced
  PROVE  CalmInv'
<1> USE DEF CredentialInv
<1> SUFFICES ASSUME calm' PROVE CalmInv'
  BY DEF CalmInv
<1>1. /\ calm /\ ~raced /\ ~raced'
      /\ \A x \in Writers \ {w} : writer[x] = AtRest /\ writer'[x] = AtRest
  BY CalmStep
<1>2. /\ store # NoStore => Decrypts(machineKey)
      /\ writer[w].at \in {"key", "newkey", "read", "write"} => keychain = NoStore
      /\ writer[w].at = "newkey" => machineKey = NoKey
      /\ writer[w].at \in {"read", "write"} => writer[w].key = machineKey
      /\ \A a \in Accounts : ReadCredential(a) = saved[a]
  BY <1>1 DEF CalmInv
<1>3. /\ AtRest.at = "rest"
      /\ \A to : Moves(w, to) => writer'[w] = to
      /\ writer[w] \in WritingStates
      /\ store \in {NoStore, TornStore} \cup Encrypted
  BY DEF AtRest, Moves, CredentialTypes, CredentialTypeOK
\* It is enough to look at the process that steps.
<1>4. SUFFICES /\ store' # NoStore => Decrypts(machineKey)'
               /\ writer'[w].at \in {"key", "newkey", "read", "write"} => keychain' = NoStore
               /\ writer'[w].at = "newkey" => machineKey' = NoKey
               /\ writer'[w].at \in {"read", "write"} => writer'[w].key = machineKey'
               /\ \A a \in Accounts : ReadCredential(a)' = saved'[a]
  BY <1>1, <1>3 DEF CalmInv
<1>q. ASSUME UNCHANGED <<keychain, machineKey, store, saved>>
      PROVE  /\ store' # NoStore => Decrypts(machineKey)'
             /\ \A a \in Accounts : ReadCredential(a)' = saved'[a]
  BY <1>2, <1>q DEF Decrypts, ReadCredential, FileStoreGet
<1>5. ASSUME NEW a \in Accounts, NEW v \in Secrets, Begins(w, a, v)
      PROVE  /\ writer'[w].at \in {"key", "newkey", "read", "write"} => keychain' = NoStore
             /\ writer'[w].at \notin {"newkey", "read", "write"}
             /\ UNCHANGED <<keychain, machineKey, store, saved>>
  BY <1>3, <1>5 DEF Begins
<1>6. CASE LooksForKey(w)
  <2>1. writer[w] \in [at : {"keychain", "key", "newkey"}, account : Accounts, value : Secrets]
    BY <1>3, <1>6 DEF LooksForKey, WritingStates
  <2>2. /\ writer'[w].at \in {"newkey", "read"} /\ UNCHANGED <<keychain, machineKey, store, saved>>
        /\ writer'[w].at = "newkey" => machineKey = NoKey
        /\ writer'[w].at = "read" => writer'[w].key = machineKey
    BY <1>3, <1>6, <2>1 DEF LooksForKey
  <2>3. keychain = NoStore
    BY <1>2, <1>6 DEF LooksForKey
  <2>4. QED
    BY <1>q, <2>2, <2>3
<1>7. CASE MakesKey(w)
  <2>1. machineKey = NoKey /\ keychain = NoStore
    BY <1>2, <1>7 DEF MakesKey
  <2>2. store = NoStore
    BY <1>2, <1>3, <2>1, CredentialAssumption DEF Decrypts, Encrypted
  <2>3. /\ writer'[w].at = "read" /\ writer'[w].key = machineKey'
        /\ UNCHANGED <<keychain, store, saved>>
    BY <1>3, <1>7 DEF MakesKey
  <2>4. \A a \in Accounts : ReadCredential(a)' = ReadCredential(a)
    BY <2>1, <2>2, <2>3 DEF ReadCredential, FileStoreGet, Decrypts
  <2>5. QED
    BY <1>2, <2>1, <2>2, <2>3, <2>4
<1>8. CASE ReadsStore(w)
  <2>1. UNCHANGED <<keychain, machineKey, store, saved>> /\ writer[w].at = "read"
    BY <1>8 DEF ReadsStore
  <2>2. writer'[w].at \in {"rest", "write"}
        /\ (writer'[w].at = "write" => writer'[w].key = writer[w].key)
    BY <1>3, <1>8 DEF ReadsStore
  <2>3. QED
    BY <1>2, <1>q, <2>1, <2>2
<1>9. CASE UsesKeychain(w)
  <2>1. writer'[w].at = "rest" /\ keychain # NoStore /\ UNCHANGED <<machineKey, store>>
        /\ writer[w].at = "keychain" /\ keychain \in Stores
    BY <1>3, <1>9 DEF UsesKeychain, CredentialTypes, CredentialTypeOK
  <2>2. writer[w].account \in Accounts /\ writer[w].value \in Secrets
    BY <1>3, <2>1 DEF WritingStates
  <2>3. CASE UNCHANGED <<keychain, saved>>
    BY <1>q, <2>1, <2>3
  <2>4. CASE keychain' = With(keychain, writer[w].account, writer[w].value) /\ Succeeds(w)
    <3>1. keychain' \in Stores /\ keychain' # NoStore
      BY <2>1, <2>2, <2>4, WithFacts, CredentialAssumption
    <3>2. PICK a \in Accounts, v \in Secrets : a = writer[w].account /\ v = writer[w].value
      BY <2>2
    <3>5. /\ ReadCredential(a)' = v
          /\ \A b \in Accounts \ {a} : ReadCredential(b)' = ReadCredential(b)
      BY <2>1, <2>4, <3>1, <3>2, WithFacts DEF ReadCredential
    <3>3. \A b \in Accounts : ReadCredential(b)' = saved'[b]
      BY <1>2, <2>4, <3>2, <3>5, WriteServes DEF Succeeds
    <3>4. QED
      BY <1>2, <2>1, <3>3 DEF Decrypts
  <2>5. QED
    BY <1>9, <2>3, <2>4 DEF UsesKeychain
<1>10. CASE WritesStore(w)
  <2>1. /\ writer'[w].at = "rest" /\ writer[w].at = "write" /\ UNCHANGED <<keychain, machineKey>>
        /\ store' = [key |-> writer[w].key,
                     accounts |-> With(writer[w].accounts, writer[w].account, writer[w].value)]
        /\ Succeeds(w)
    BY <1>3, <1>10 DEF WritesStore
  <2>2. /\ writer[w].account \in Accounts /\ writer[w].value \in Secrets
        /\ writer[w].key \in MachineKeys /\ writer[w].accounts \in Stores
    BY <1>3, <2>1 DEF WritingStates
  <2>3. keychain = NoStore /\ writer[w].key = machineKey
        /\ writer[w].accounts = StoredAccounts
    BY <1>1, <1>2, <2>1 DEF RaceInv
  <2>4. store' \in Encrypted /\ store'.key = machineKey'
        /\ store'.accounts = With(writer[w].accounts, writer[w].account, writer[w].value)
    BY <2>1, <2>2, <2>3, WithFacts DEF Encrypted
  <2>5. Decrypts(machineKey)'
    BY <2>4, CredentialAssumption DEF Decrypts
  <2>6. \A b \in Accounts : /\ ReadCredential(b)' = StoreGet(store'.accounts, b)
                            /\ ReadCredential(b) = StoreGet(writer[w].accounts, b)
    <3>1. \A b \in Accounts : ReadCredential(b)' = StoreGet(store'.accounts, b)
      BY <2>1, <2>3, <2>5 DEF ReadCredential, FileStoreGet
    <3>2. \A b \in Accounts : ReadCredential(b) = StoreGet(writer[w].accounts, b)
      BY <1>2, <2>3, EmptyStore DEF ReadCredential, FileStoreGet, StoredAccounts, Decrypts
    <3>3. QED
      BY <3>1, <3>2, Zenon
  <2>p. PICK a \in Accounts, v \in Secrets : a = writer[w].account /\ v = writer[w].value
    BY <2>2
  <2>7. /\ ReadCredential(a)' = v
        /\ \A b \in Accounts \ {a} : ReadCredential(b)' = ReadCredential(b)
    BY <2>2, <2>4, <2>6, <2>p, WithFacts
  <2>8. \A b \in Accounts : ReadCredential(b)' = saved'[b]
    BY <1>2, <2>1, <2>p, <2>7, WriteServes DEF Succeeds
  <2>9. QED
    BY <2>1, <2>5, <2>8
<1>11. CASE WriterDies(w)
  BY <1>11 DEF WriterDies
<1>12. QED
  BY <1>2, <1>q, <1>5, <1>6, <1>7, <1>8, <1>9, <1>10, <1>11 DEF WriterStep

\* So every step of the store keeps the invariant.
LEMMA CredentialStep == CredentialInv /\ [CredentialNext]_credentialVars => CredentialInv'
<1> SUFFICES ASSUME CredentialInv, [CredentialNext]_credentialVars PROVE CredentialInv'
  OBVIOUS
<1> USE DEF CredentialInv
<1>1. CASE UNCHANGED credentialVars
  BY <1>1 DEF credentialVars, CredentialTypes, CredentialTypeOK, RaceInv, OneWriter, Busy,
     StoredAccounts, CalmInv, Decrypts, ReadCredential, FileStoreGet
<1>2. ASSUME NEW w \in Writers, WriterStep(w), raced' = Raced
      PROVE  CredentialInv'
  <2>1. raced' \in BOOLEAN
    BY <1>2 DEF Raced, CredentialTypes, CredentialTypeOK
  <2>2. QED
    BY <1>2, <2>1, WriterTypes, WriterRaces, WriterCalm
<1>3. CASE (KeyIsLost \/ KeychainChanges \/ ReaderMakesKey) /\ raced' = Raced
  <2>1. UNCHANGED <<store, writer, saved>>
    BY <1>3 DEF KeyIsLost, KeychainChanges, ReaderMakesKey
  <2>r. raced' \in BOOLEAN
    <3>1. raced' = Raced
      BY <1>3
    <3>2. Raced \in BOOLEAN
      BY DEF Raced, CredentialTypes, CredentialTypeOK
    <3>3. QED
      BY <3>1, <3>2
  <2>2. CredentialTypes'
    BY <1>3, <2>r, EmptyStore DEF KeyIsLost, KeychainChanges, ReaderMakesKey,
       CredentialTypes, CredentialTypeOK
  <2>3. RaceInv'
    <3>1. SUFFICES ASSUME ~raced' PROVE RaceInv'
      BY DEF RaceInv
    <3>2. ~Raced
      BY <1>3, <3>1, Zenon
    <3>3. ~raced \/ \A w \in Writers : ~Busy(w)'
      BY <3>2 DEF Raced
    <3>4. \A w, x \in Writers : Busy(w)' /\ Busy(x)' => w = x
      BY <3>2 DEF Raced
    <3>5. CASE ~raced
      BY <2>1, <3>5 DEF RaceInv, OneWriter, Busy, StoredAccounts
    <3>6. CASE \A w \in Writers : ~Busy(w)'
      BY <3>4, <3>6 DEF RaceInv, OneWriter, Busy, AtRest
    <3>7. QED
      BY <3>3, <3>5, <3>6
  <2>4. CalmInv'
    <3>1. CASE KeyIsLost \/ KeychainChanges
      BY <3>1 DEF KeyIsLost, KeychainChanges, CalmInv
    <3>2. CASE ReaderMakesKey
      <4>1. ~calm
        BY <3>2, CredentialAssumption
           DEF ReaderMakesKey, CalmInv, Decrypts, CredentialTypes, CredentialTypeOK, Encrypted
      <4>2. QED
        BY <3>2, <4>1 DEF ReaderMakesKey, CalmInv
    <3>3. QED
      BY <1>3, <3>1, <3>2
  <2>5. QED
    BY <2>2, <2>3, <2>4
<1>4. QED
  BY <1>1, <1>2, <1>3 DEF CredentialNext, WriterStep, Secrets

\* In calm times what is served is what was saved, from the file or keychain
\* first and from the environment if nothing was.
LEMMA SavedIsAlwaysServed == CredentialInv => SavedIsServed
  BY DEF CredentialInv, CalmInv, SavedIsServed, LoadCredential

\* A step that changes the file keeps the secrets of the accounts it is not about.
LEMMA OthersAreKept ==
  CredentialInv /\ CredentialInv' /\ [CredentialNext]_credentialVars => WritesKeepOthers
<1> SUFFICES ASSUME CredentialInv, CredentialInv', [CredentialNext]_credentialVars,
                    store \notin {NoStore, TornStore}, store' # TornStore, ~raced,
                    NEW a \in DOMAIN store.accounts
             PROVE  \/ \E w \in Writers : writer[w].at = "write" /\ writer[w].account = a
                    \/ a \in DOMAIN store'.accounts /\ store'.accounts[a] = store.accounts[a]
  BY DEF WritesKeepOthers
<1> USE DEF CredentialInv, CredentialTypes
<1>1. CASE store' = store
  BY <1>1
<1>2. CASE store' # store
  <2>1. PICK w \in Writers : WritesStore(w)
    BY <1>2 DEF CredentialNext, KeyIsLost, KeychainChanges, ReaderMakesKey, Begins,
       UsesKeychain, LooksForKey, MakesKey, ReadsStore, WriterDies, credentialVars
  <2>2. /\ writer[w].at = "write" /\ writer[w] \in WritingStates
        /\ store' = [key |-> writer[w].key,
                     accounts |-> With(writer[w].accounts, writer[w].account, writer[w].value)]
    BY <2>1 DEF WritesStore
  <2>3. /\ writer[w].account \in Accounts /\ writer[w].value \in Secrets
        /\ writer[w].accounts \in Stores
    BY <2>2 DEF WritingStates, AtRest
  <2>4. writer[w].accounts = store.accounts
    BY <2>2 DEF RaceInv, StoredAccounts
  <2>5. a \in Accounts
    BY <2>3, <2>4 DEF Stores
  <2>6. CASE a # writer[w].account
    BY <2>2, <2>3, <2>4, <2>5, <2>6, WithFacts
  <2>7. QED
    BY <2>2, <2>6
<1>3. QED
  BY <1>1, <1>2

\* What `auth set` saved is what is served, until it is cleared or replaced, and no
\* write drops another account's secret unless two writers raced
\* (credentials.ts:60-68, credential-file-store.ts:161-175).
THEOREM CredentialsAreAlwaysKept == CredentialSpec => CredentialsAreKept
<1>1. CredentialInv /\ [CredentialNext]_credentialVars
        => [SavedIsServed' /\ WritesKeepOthers]_credentialVars
  <2>1. CredentialInv' => SavedIsServed'
    BY SavedIsAlwaysServed, PTL
  <2>2. QED
    BY <2>1, CredentialStep, OthersAreKept
<1>2. QED
  BY <1>1, CredentialStart, CredentialStep, PTL DEF CredentialSpec, CredentialsAreKept
-----------------------------------------------------------------------------
(* The toolchain memory.  Every operation writes back the copy it loaded, so  *)
(* the invariant speaks of the copies too; and what a human corrected holds   *)
(* as long as the copy of whoever is at work is the record as it is.          *)

MayBeRecord == Records \cup {NoRecord}

Reading ==
  {Resting}
  \cup [op : {"get"}, key : {Nothing}, value : {Nothing}, copy : MayBeRecord]
  \cup [op : {"stale", "forget"}, key : Keys, value : {Nothing}, copy : MayBeRecord]
  \cup [op : {"correct"}, key : Keys, value : Commands, copy : MayBeRecord]

MayBeKept == {Nothing} \cup [under : Manifests, said : [Keys -> Commands \cup {Nothing}]]

MemoryTypes ==
  /\ MemoryTypeOK
  /\ record \in MayBeRecord
  /\ client \in [Clients -> Reading]
  /\ kept \in MayBeKept

HumanFact(r) == \E k \in DOMAIN r.facts : r.facts[k].source = "human"

\* A record that no human touched says what its manifests and its AGENTS.md say.
IsDerived(r) ==
  r # NoRecord /\ r.hash # NoHash /\ ~HumanFact(r) =>
    FactsToCommands(r.facts) = Override(Detected[r.hash], r.guide)

DerivedInv ==
  /\ IsDerived(record)
  /\ \A c \in Clients : client[c] # Resting => IsDerived(client[c].copy)

Tells(r, corrections) ==
  \A k \in Keys : corrections[k] # Nothing =>
    k \in DOMAIN r.facts /\ r.facts[k].value = corrections[k]

\* While there are corrections the record is a hit for the manifests they were
\* made under, and at most one process is at work, on the record as it is.
KeptInv ==
  kept # Nothing =>
    /\ Hit(record, kept.under) /\ Tells(record, kept.said)
    /\ \A c, d \in Clients : client[c] # Resting /\ client[d] # Resting => c = d
    /\ \A c \in Clients : client[c] # Resting => client[c].copy = record

MemoryInv == MemoryTypes /\ DerivedInv /\ KeptInv

\* Detecting and overriding make commands, and facts that say the same.
LEMMA OverrideFacts ==
  ASSUME NEW f \in CommandSets, NEW g \in CommandSets
  PROVE  Override(f, g) \in CommandSets
<1>1. PICK A \in SUBSET Keys : f \in [A -> Commands]
  BY DEF CommandSets
<1>2. PICK B \in SUBSET Keys : g \in [B -> Commands]
  BY DEF CommandSets
<1>3. Override(f, g) \in [A \cup B -> Commands]
  BY <1>1, <1>2 DEF Override
<1>4. QED
  BY <1>3 DEF CommandSets

LEMMA DerivedFacts ==
  ASSUME NEW f \in CommandSets
  PROVE  /\ CommandsToFacts(f) \in FactSets
         /\ FactsToCommands(CommandsToFacts(f)) = f
<1>1. PICK K \in SUBSET Keys : f \in [K -> Commands]
  BY DEF CommandSets
<1>2. CommandsToFacts(f) \in
        [K -> [value : Commands, source : {"detected", "human"}, stale : BOOLEAN]]
  BY <1>1 DEF CommandsToFacts, Fact
<1>3. CommandsToFacts(f) \in FactSets
  BY <1>2 DEF FactSets
<1>4. \A k \in K : CommandsToFacts(f)[k].value = f[k]
  BY <1>1 DEF CommandsToFacts, Fact
<1>5. DOMAIN CommandsToFacts(f) = K
  BY <1>2
<1>6. FactsToCommands(CommandsToFacts(f)) = [k \in K |-> f[k]]
  BY <1>4, <1>5 DEF FactsToCommands
<1>7. QED
  BY <1>1, <1>3, <1>6

\* A fact that is marked, taken out or corrected leaves facts.
LEMMA FactChanges ==
  ASSUME NEW F \in FactSets, NEW k \in Keys, NEW v \in Commands
  PROVE  /\ [F EXCEPT ![k].stale = TRUE] \in FactSets
         /\ [j \in DOMAIN F \ {k} |-> F[j]] \in FactSets
         /\ [j \in DOMAIN F \cup {k} |-> IF j = k THEN Fact(v, "human") ELSE F[j]] \in FactSets
<1> DEFINE Shape == [value : Commands, source : {"detected", "human"}, stale : BOOLEAN]
<1>1. PICK K \in SUBSET Keys : F \in [K -> Shape]
  BY DEF FactSets
<1>2. [F EXCEPT ![k].stale = TRUE] \in [K -> Shape]
  BY <1>1
<1>3. [j \in DOMAIN F \ {k} |-> F[j]] \in [K \ {k} -> Shape]
  BY <1>1
<1>4. [j \in DOMAIN F \cup {k} |-> IF j = k THEN Fact(v, "human") ELSE F[j]]
        \in [K \cup {k} -> Shape]
  BY <1>1 DEF Fact
<1>5. K \ {k} \in SUBSET Keys /\ K \cup {k} \in SUBSET Keys
  OBVIOUS
<1> HIDE DEF Shape
<1>6. \A D \in SUBSET Keys : [D -> Shape] \subseteq FactSets
  BY DEF FactSets, Shape
<1>7. QED
  BY <1>2, <1>3, <1>4, <1>5, <1>6

\* No fact at all, for whoever corrects a memory that is not there.
LEMMA NoFacts == <<>> \in FactSets
<1>1. <<>> \in [{} -> [value : Commands, source : {"detected", "human"}, stale : BOOLEAN]]
  OBVIOUS
<1>2. QED
  BY <1>1 DEF FactSets

LEMMA MemoryStart == MemoryInit => MemoryInv
<1> SUFFICES ASSUME MemoryInit PROVE MemoryInv
  OBVIOUS
<1>1. MemoryTypes
  BY ToolchainMemoryAssumption
     DEF MemoryInit, MemoryTypes, MemoryTypeOK, MayBeRecord, Reading, MayBeKept
<1>2. DerivedInv
  BY DEF MemoryInit, DerivedInv, IsDerived
<1>3. KeptInv
  BY DEF MemoryInit, KeptInv
<1>4. QED
  BY <1>1, <1>2, <1>3 DEF MemoryInv

\* An operation ends.  It is enough to look at the record it leaves and at the
\* corrections that still count: as before, none, or told by a fresh record
\* when nobody else is at work.
LEMMA OperationEnds ==
  ASSUME MemoryInv, NEW c \in Clients, Done(c),
         UNCHANGED <<committed, tree, guide, ops>>,
         served' # Nothing => served'.facts \in FactSets,
         record' \in MayBeRecord, IsDerived(record'),
         kept' \in MayBeKept,
         \/ UNCHANGED <<record, kept>>
         \/ kept' = Nothing
         \/ /\ Hit(record', kept'.under) /\ Tells(record', kept'.said)
            /\ \A d \in Clients \ {c} : client[d] = Resting
  PROVE  MemoryInv'
<1> USE DEF MemoryInv
<1>1. client' \in [Clients -> Reading]
  BY DEF Done, MemoryTypes, Reading
<1>2. /\ client'[c] = Resting
      /\ \A d \in Clients \ {c} : client'[d] = client[d]
  BY DEF Done, MemoryTypes
<1>3. MemoryTypes'
  BY <1>1, ToolchainMemoryAssumption DEF MemoryTypes, MemoryTypeOK, MayBeRecord
<1>4. DerivedInv'
  BY <1>2 DEF DerivedInv
<1>5. KeptInv'
  <2>1. SUFFICES ASSUME kept' # Nothing PROVE KeptInv'
    BY DEF KeptInv
  <2>2. CASE UNCHANGED <<record, kept>>
    BY <1>2, <2>1, <2>2 DEF KeptInv
  <2>3. CASE /\ Hit(record', kept'.under) /\ Tells(record', kept'.said)
             /\ \A d \in Clients \ {c} : client[d] = Resting
    BY <1>2, <2>3 DEF KeptInv
  <2>4. QED
    BY <2>1, <2>2, <2>3
<1>6. QED
  BY <1>3, <1>4, <1>5

\* What a process that is at work holds.
LEMMA AtWork ==
  ASSUME MemoryInv, NEW c \in Clients, client[c].op \in {"get", "stale", "forget", "correct"}
  PROVE  /\ client[c] # Resting /\ IsDerived(client[c].copy)
         /\ client[c].copy \in MayBeRecord
         /\ client[c].op # "get" => client[c].key \in Keys
         /\ client[c].op = "correct" => client[c].value \in Commands
<1>1. client[c] \in Reading /\ client[c] # Resting
  BY DEF MemoryInv, MemoryTypes, Resting
<1>2. client[c] \in Reading \ {Resting}
  BY <1>1
<1>3. QED
  BY <1>1, <1>2 DEF MemoryInv, DerivedInv, Reading

LEMMA GetsStep ==
  ASSUME MemoryInv, NEW c \in Clients, Gets(c)
  PROVE  MemoryInv' /\ IsFresh(served') /\ HasCorrections(served')
<1> DEFINE copy == client[c].copy
           derived == Override(Detected[committed], guide)
<1>1. /\ client[c] # Resting /\ IsDerived(copy) /\ copy \in MayBeRecord
      /\ Done(c) /\ UNCHANGED <<committed, tree, guide, ops>>
  BY AtWork DEF Gets
<1>2. committed \in Manifests /\ guide \in Guides /\ committed # NoHash
      /\ kept \in MayBeKept /\ record \in MayBeRecord /\ IsDerived(record)
  BY ToolchainMemoryAssumption DEF MemoryInv, MemoryTypes, MemoryTypeOK, DerivedInv
<1>3. kept # Nothing => Hit(copy, kept.under) /\ Tells(copy, kept.said)
  BY <1>1 DEF MemoryInv, KeptInv
<1>4. CASE Hit(copy, committed)
  <2>1. /\ served' = [facts |-> copy.facts, cached |-> TRUE, guide |-> copy.guide]
        /\ UNCHANGED <<record, kept>>
    BY <1>4 DEF Gets
  <2>2. copy \in Records /\ copy.hash = committed /\ copy # NoRecord
    BY <1>1, <1>4 DEF Hit, MayBeRecord
  <2>3. served'.facts \in FactSets
    BY <2>1, <2>2 DEF Records
  <2>4. MemoryInv'
    BY <1>1, <1>2, <2>1, <2>3, OperationEnds
  <2>5. IsFresh(served')
    <3>1. ~(\A k \in DOMAIN copy.facts : copy.facts[k].source # "human") <=> HumanFact(copy)
      BY DEF HumanFact
    <3>2. ~HumanFact(copy) =>
            FactsToCommands(copy.facts) = Override(Detected[committed], copy.guide)
      BY <1>1, <1>2, <2>2 DEF IsDerived
    <3>3. served'.facts = copy.facts /\ served'.guide = copy.guide
      BY <2>1
    <3>4. QED
      BY <3>1, <3>2, <3>3 DEF IsFresh
  <2>6. HasCorrections(served')
    BY <1>3, <2>1 DEF HasCorrections, Tells
  <2>7. QED
    BY <2>4, <2>5, <2>6
<1>5. CASE ~Hit(copy, committed)
  <2>1. /\ served' = [facts |-> CommandsToFacts(derived), cached |-> FALSE, guide |-> guide]
        /\ record' = [hash |-> committed, facts |-> CommandsToFacts(derived), guide |-> guide]
        /\ kept' = Nothing
    BY <1>5 DEF Gets
  <2>2. derived \in CommandSets
    BY <1>2, OverrideFacts, ToolchainMemoryAssumption
  <2> HIDE DEF derived
  <2>3. CommandsToFacts(derived) \in FactSets /\ FactsToCommands(CommandsToFacts(derived)) = derived
    BY <2>2, DerivedFacts
  <2>4. ~(kept # Nothing /\ kept.under = committed)
    BY <1>3, <1>5
  <2>5. record' \in MayBeRecord
    BY <1>2, <2>1, <2>3 DEF MayBeRecord, Records
  <2>6. record'.hash = committed /\ FactsToCommands(record'.facts) = derived
        /\ record'.guide = guide
    BY <2>1, <2>3
  <2>7. IsDerived(record')
    BY <2>6 DEF IsDerived, derived
  <2>8. served'.facts \in FactSets /\ ~served'.cached
    BY <2>1, <2>3
  <2>9. kept' \in MayBeKept
    BY <2>1 DEF MayBeKept
  <2>10. MemoryInv'
    BY <1>1, <2>1, <2>5, <2>7, <2>8, <2>9, OperationEnds
  <2>11. IsFresh(served') /\ HasCorrections(served')
    BY <2>4, <2>8 DEF IsFresh, HasCorrections
  <2>12. QED
    BY <2>10, <2>11
<1>6. QED
  BY <1>4, <1>5

\* Marking a fact stale leaves what it says and who said it.
LEMMA MarksStaleStep ==
  ASSUME MemoryInv, NEW c \in Clients, MarksStale(c)
  PROVE  MemoryInv'
<1> DEFINE copy == client[c].copy
           key == client[c].key
<1>1. /\ client[c] # Resting /\ IsDerived(copy) /\ copy \in MayBeRecord /\ key \in Keys
      /\ Done(c) /\ UNCHANGED <<committed, tree, guide, ops>> /\ served' = Nothing
  BY AtWork DEF MarksStale
<1>2. Nothing \in MayBeKept
  BY DEF MayBeKept
<1>3. kept \in MayBeKept /\ record \in MayBeRecord /\ IsDerived(record)
  BY DEF MemoryInv, MemoryTypes, DerivedInv
<1>4. CASE copy # NoRecord /\ key \in DOMAIN copy.facts
  <2>1. record' = [copy EXCEPT !.facts[key].stale = TRUE] /\ kept' = Nothing
    BY <1>4 DEF MarksStale
  <2>2. copy \in Records /\ copy.facts \in FactSets
    BY <1>1, <1>4 DEF MayBeRecord, Records
  <2>3. PICK F \in FactSets, k \in Keys : F = copy.facts /\ k = key
    BY <1>1, <2>2
  <2>4. record'.hash = copy.hash /\ record'.facts = [F EXCEPT ![k].stale = TRUE]
        /\ record'.guide = copy.guide
        /\ record' = [hash |-> copy.hash, facts |-> [F EXCEPT ![k].stale = TRUE],
                      guide |-> copy.guide]
    BY <2>1, <2>2, <2>3 DEF Records
  <2>5. [F EXCEPT ![k].stale = TRUE] \in FactSets
    <3>1. CASE Commands = {}
      BY <1>4, <2>3, <3>1 DEF FactSets
    <3>2. CASE Commands # {}
      BY <3>2, FactChanges
    <3>3. QED
      BY <3>1, <3>2
  <2>6. record' \in MayBeRecord
    BY <2>2, <2>4, <2>5 DEF MayBeRecord, Records
  <2>7. PICK K \in SUBSET Keys :
          F \in [K -> [value : Commands, source : {"detected", "human"}, stale : BOOLEAN]]
    BY DEF FactSets
  <2>8. DOMAIN record'.facts = K /\ DOMAIN copy.facts = K
        /\ \A j \in K : record'.facts[j].value = copy.facts[j].value
                        /\ record'.facts[j].source = copy.facts[j].source
    BY <2>3, <2>4, <2>7
  <2>9. FactsToCommands(record'.facts) = FactsToCommands(copy.facts)
        /\ (HumanFact(record') <=> HumanFact(copy))
    BY <2>8 DEF FactsToCommands, HumanFact
  <2>10. IsDerived(record')
    BY <1>1, <1>4, <2>4, <2>9 DEF IsDerived
  <2>11. QED
    BY <1>1, <1>2, <2>1, <2>6, <2>10, OperationEnds
<1>5. CASE ~(copy # NoRecord /\ key \in DOMAIN copy.facts)
  <2>1. UNCHANGED <<record, kept>>
    BY <1>5 DEF MarksStale
  <2>2. QED
    BY <1>1, <1>3, <2>1, OperationEnds
<1>6. QED
  BY <1>4, <1>5

\* A record with a fact taken out is no derivation, and its hash says so.
LEMMA ForgetsStep ==
  ASSUME MemoryInv, NEW c \in Clients, Forgets(c)
  PROVE  MemoryInv'
<1> DEFINE copy == client[c].copy
           key == client[c].key
<1>1. /\ client[c] # Resting /\ IsDerived(copy) /\ copy \in MayBeRecord /\ key \in Keys
      /\ Done(c) /\ UNCHANGED <<committed, tree, guide, ops>> /\ served' = Nothing
  BY AtWork DEF Forgets
<1>2. Nothing \in MayBeKept
  BY DEF MayBeKept
<1>3. kept \in MayBeKept /\ record \in MayBeRecord /\ IsDerived(record)
  BY DEF MemoryInv, MemoryTypes, DerivedInv
<1>4. CASE copy # NoRecord /\ key \in DOMAIN copy.facts
  <2>1. /\ record' = [hash  |-> NoHash,
                      facts |-> [k \in DOMAIN copy.facts \ {key} |-> copy.facts[k]],
                      guide |-> copy.guide]
        /\ kept' = Nothing
    BY <1>1, <1>4 DEF Forgets, MayBeRecord, Records
  <2>2. copy.facts \in FactSets /\ copy.guide \in Guides
    BY <1>1, <1>4 DEF MayBeRecord, Records
  <2>3. PICK K \in SUBSET Keys :
          copy.facts \in [K -> [value : Commands, source : {"detected", "human"}, stale : BOOLEAN]]
    BY <2>2 DEF FactSets
  <2>4. [k \in DOMAIN copy.facts \ {key} |-> copy.facts[k]] \in FactSets
    <3>1. copy.facts[key].value \in Commands
      BY <1>4, <2>3
    <3>2. QED
      BY <1>1, <2>2, <3>1, FactChanges
  <2>5. record' \in MayBeRecord
    BY <2>1, <2>2, <2>4 DEF MayBeRecord, Records
  <2>6. IsDerived(record')
    BY <2>1 DEF IsDerived
  <2>7. QED
    BY <1>1, <1>2, <2>1, <2>5, <2>6, OperationEnds
<1>5. CASE ~(copy # NoRecord /\ key \in DOMAIN copy.facts)
  <2>1. UNCHANGED <<record, kept>>
    BY <1>5 DEF Forgets
  <2>2. QED
    BY <1>1, <1>3, <2>1, OperationEnds
<1>6. QED
  BY <1>4, <1>5

\* A corrected record has a fact of a human's, and is a hit if nothing else in
\* it is stale and its manifests are those of the next run.
LEMMA CorrectsStep ==
  ASSUME MemoryInv, NEW c \in Clients, Corrects(c)
  PROVE  MemoryInv'
<1>1. /\ client[c] # Resting /\ IsDerived(client[c].copy) /\ client[c].copy \in MayBeRecord
      /\ client[c].key \in Keys /\ client[c].value \in Commands
      /\ Done(c) /\ UNCHANGED <<committed, tree, guide, ops>> /\ served' = Nothing
  BY AtWork DEF Corrects
<1>2. Nothing \in MayBeKept /\ \A k \in Keys : NoneSaid[k] = Nothing
  BY DEF NoneSaid, MayBeKept
<1>3. /\ kept \in MayBeKept /\ tree \in Manifests /\ guide \in Guides
      /\ Said \in [Keys -> Commands \cup {Nothing}]
  BY DEF MemoryInv, MemoryTypes, MemoryTypeOK, MayBeKept, Said, NoneSaid
<1>4. PICK F \in FactSets : F = IF client[c].copy = NoRecord THEN <<>> ELSE client[c].copy.facts
  BY <1>1, NoFacts DEF MayBeRecord, Records
<1>5. PICK k \in Keys, v \in Commands : k = client[c].key /\ v = client[c].value
  BY <1>1
<1> DEFINE G == [j \in DOMAIN F \cup {k} |-> IF j = k THEN Fact(v, "human") ELSE F[j]]
           spoilt == \/ \E j \in DOMAIN F \ {k} : F[j].stale
                     \/ \E d \in Clients \ {c} : client[d] # Resting
           from == IF client[c].copy = NoRecord THEN guide ELSE client[c].copy.guide
<1>6. /\ record' = [hash |-> tree, facts |-> G, guide |-> from]
      /\ kept' = IF spoilt THEN Nothing
                 ELSE [under |-> tree, said |-> [Said EXCEPT ![k] = v]]
  BY <1>4, <1>5 DEF Corrects
<1>7. G \in FactSets
  BY FactChanges
<1>8. /\ k \in DOMAIN G /\ G[k].source = "human" /\ G[k].value = v /\ ~G[k].stale
      /\ DOMAIN G = DOMAIN F \cup {k} /\ \A j \in DOMAIN F \ {k} : G[j] = F[j]
  BY DEF Fact
<1> HIDE DEF G, spoilt
<1>9. record' \in Records /\ record'.hash = tree /\ record'.facts = G
  <2>1. from \in Guides
    BY <1>1, <1>3 DEF MayBeRecord, Records
  <2> HIDE DEF from
  <2>2. QED
    BY <1>3, <1>6, <1>7, <2>1 DEF Records
<1>10. IsDerived(record')
  BY <1>8, <1>9 DEF IsDerived, HumanFact
<1>11. kept' \in MayBeKept
  BY <1>2, <1>3, <1>6 DEF MayBeKept
<1>12. ASSUME ~spoilt
       PROVE  /\ Hit(record', kept'.under) /\ Tells(record', kept'.said)
              /\ \A d \in Clients \ {c} : client[d] = Resting
  <2>1. /\ \A d \in Clients \ {c} : client[d] = Resting
        /\ kept'.under = tree /\ kept'.said = [Said EXCEPT ![k] = v]
    BY <1>6, <1>12 DEF spoilt
  <2>2. Hit(record', kept'.under)
    <3>1. record' # NoRecord
      BY <1>9, ToolchainMemoryAssumption
    <3>2. \A j \in DOMAIN G : ~G[j].stale
      BY <1>8, <1>12 DEF spoilt
    <3>3. QED
      BY <1>9, <2>1, <3>1, <3>2 DEF Hit
  <2>3. Tells(record', kept'.said)
    <3>1. SUFFICES ASSUME NEW j \in Keys, kept'.said[j] # Nothing
                   PROVE  j \in DOMAIN G /\ G[j].value = kept'.said[j]
      BY <1>9 DEF Tells
    <3>2. CASE j = k
      BY <1>3, <1>8, <2>1, <3>2
    <3>3. CASE j # k
      <4>1. kept'.said[j] = Said[j] /\ kept # Nothing /\ Said = kept.said
        BY <1>2, <1>3, <2>1, <3>1, <3>3 DEF Said
      <4>2. Hit(record, kept.under) /\ Tells(record, kept.said) /\ client[c].copy = record
        BY <1>1, <4>1 DEF MemoryInv, KeptInv
      <4>3. F = record.facts
        BY <1>4, <4>2 DEF Hit
      <4>4. QED
        BY <1>8, <3>1, <3>3, <4>1, <4>2, <4>3 DEF Tells
    <3>4. QED
      BY <3>2, <3>3
  <2>4. QED
    BY <2>1, <2>2, <2>3
<1>13. record' \in MayBeRecord
  BY <1>9 DEF MayBeRecord
<1>14. spoilt => kept' = Nothing
  BY <1>6
<1>15. QED
  BY <1>1, <1>10, <1>11, <1>12, <1>13, <1>14, OperationEnds

\* A process that dies writes nothing, or half a file that no one can parse.
LEMMA ProcessDiesStep ==
  ASSUME MemoryInv, NEW c \in Clients, MemoryDies(c)
  PROVE  MemoryInv'
<1>1. /\ Done(c) /\ UNCHANGED <<committed, tree, guide, ops>> /\ served' = Nothing
      /\ UNCHANGED <<record, kept>> \/ (record' = NoRecord /\ kept' = Nothing)
  BY DEF MemoryDies
<1>2. Nothing \in MayBeKept
  BY DEF MayBeKept
<1>3. kept \in MayBeKept /\ record \in MayBeRecord /\ IsDerived(record)
  BY DEF MemoryInv, MemoryTypes, DerivedInv
<1>4. IsDerived(NoRecord) /\ NoRecord \in MayBeRecord
  BY DEF IsDerived, MayBeRecord
<1>5. QED
  BY <1>1, <1>2, <1>3, <1>4, OperationEnds

\* A process that loads has the record as it is, and is the only one or nothing is kept.
LEMMA LoadsStep ==
  ASSUME MemoryInv, NEW c \in Clients, NEW op, NEW k, NEW v, Loads(c, op, k, v),
         [op |-> op, key |-> k, value |-> v, copy |-> record] \in Reading
  PROVE  MemoryInv'
<1> USE DEF MemoryInv
<1> DEFINE at == [op |-> op, key |-> k, value |-> v, copy |-> record]
<1>1. /\ client[c] = Resting /\ client' = [client EXCEPT ![c] = at]
      /\ kept' = IF InUse THEN Nothing ELSE kept
      /\ served' = Nothing /\ UNCHANGED <<committed, tree, guide, record>>
      /\ ops < MaxOps /\ ops' = ops + 1
  BY DEF Loads, Counted
<1>2. at \in Reading /\ at.copy = record
  OBVIOUS
<1> HIDE DEF at
<1>3. client' \in [Clients -> Reading] /\ client'[c] = at
      /\ \A d \in Clients \ {c} : client'[d] = client[d]
  BY <1>1, <1>2 DEF MemoryTypes
<1>4. kept' \in MayBeKept
  BY <1>1 DEF MemoryTypes, MayBeKept
<1>5. MemoryTypes'
  BY <1>1, <1>3, <1>4, ToolchainMemoryAssumption DEF MemoryTypes, MemoryTypeOK
<1>6. DerivedInv'
  BY <1>1, <1>2, <1>3 DEF DerivedInv
<1>7. KeptInv'
  <2>1. CASE InUse
    BY <1>1, <2>1 DEF KeptInv
  <2>2. CASE ~InUse
    <3>1. \A d \in Clients \ {c} : client'[d] = Resting
      BY <1>3, <2>2 DEF InUse
    <3>2. kept' = kept
      BY <1>1, <2>2
    <3>3. QED
      BY <1>1, <1>2, <1>3, <3>1, <3>2 DEF KeptInv
  <2>3. QED
    BY <2>1, <2>2
<1>8. QED
  BY <1>5, <1>6, <1>7

\* The user's edits change nothing of what is remembered.
LEMMA EditsStep ==
  ASSUME MemoryInv, EditsManifest \/ CommitsManifest \/ EditsGuide
  PROVE  MemoryInv'
<1> USE DEF MemoryInv
<1>1. /\ UNCHANGED <<record, client>> /\ served' = Nothing
      /\ ops < MaxOps /\ ops' = ops + 1
      /\ {committed', tree'} \subseteq Manifests /\ guide' \in Guides
      /\ UNCHANGED kept
  BY DEF EditsManifest, CommitsManifest, EditsGuide, Counted, MemoryTypes, MemoryTypeOK
<1>2. kept' \in MayBeKept
  BY <1>1 DEF MemoryTypes, MayBeKept
<1>3. MemoryTypes'
  BY <1>1, <1>2, ToolchainMemoryAssumption DEF MemoryTypes, MemoryTypeOK
<1>4. DerivedInv'
  BY <1>1 DEF DerivedInv
<1>5. KeptInv'
  BY <1>1 DEF KeptInv
<1>6. QED
  BY <1>3, <1>4, <1>5

\* Every step of the memory keeps the invariant, and gives a run what is current.
LEMMA MemoryStep ==
  ASSUME MemoryInv, [MemoryNext]_memoryVars
  PROVE  /\ MemoryInv'
         /\ served' # Nothing /\ served' # served => IsFresh(served') /\ HasCorrections(served')
<1>1. CASE UNCHANGED memoryVars
  BY <1>1 DEF memoryVars, MemoryInv, MemoryTypes, MemoryTypeOK, DerivedInv, KeptInv
<1>2. ASSUME NEW c \in Clients, Gets(c)
      PROVE  MemoryInv' /\ IsFresh(served') /\ HasCorrections(served')
  BY <1>2, GetsStep
<1>3. ASSUME NEW c \in Clients, MarksStale(c) \/ Forgets(c) \/ Corrects(c) \/ MemoryDies(c)
      PROVE  MemoryInv' /\ served' = Nothing
  <2>1. served' = Nothing
    BY <1>3 DEF MarksStale, Forgets, Corrects, MemoryDies
  <2>2. QED
    BY <1>3, <2>1, MarksStaleStep, ForgetsStep, CorrectsStep, ProcessDiesStep
<1>4. CASE EditsManifest \/ CommitsManifest \/ EditsGuide
  <2>1. served' = Nothing
    BY <1>4 DEF EditsManifest, CommitsManifest, EditsGuide
  <2>2. QED
    BY <1>4, <2>1, EditsStep
<1>5. ASSUME NEW c \in Clients, NEW op, NEW k, NEW v, Loads(c, op, k, v),
             \/ op = "get" /\ k = Nothing /\ v = Nothing
             \/ op \in {"stale", "forget"} /\ k \in Keys /\ v = Nothing
             \/ op = "correct" /\ k \in Keys /\ v \in Commands
      PROVE  MemoryInv' /\ served' = Nothing
  <2>1. record \in MayBeRecord
    BY DEF MemoryInv, MemoryTypes
  <2>2. [op |-> op, key |-> k, value |-> v, copy |-> record] \in Reading
    BY <1>5, <2>1 DEF Reading
  <2>3. QED
    BY <1>5, <2>2, LoadsStep DEF Loads
<1>6. CASE MemoryNext
  BY <1>2, <1>3, <1>4, <1>5, <1>6 DEF MemoryNext, LoadsForRun
<1>7. QED
  BY <1>1, <1>6

\* Every run that starts is given what its manifests say, with AGENTS.md as it was
\* when they were last derived from, and what a human corrected under them,
\* whatever other processes forgot, marked, corrected or left half written in
\* between (toolchain-memory.ts:13-25).
THEOREM MemoryIsAlwaysCurrent == MemorySpec => MemoryIsCurrent
<1>1. MemoryInv /\ [MemoryNext]_memoryVars
        => [served' # Nothing /\ served' # served =>
              IsFresh(served') /\ HasCorrections(served')]_memoryVars
  BY MemoryStep
<1>2. MemoryInv /\ [MemoryNext]_memoryVars => MemoryInv'
  BY MemoryStep
<1>3. QED
  BY <1>1, <1>2, MemoryStart, PTL DEF MemorySpec, MemoryIsCurrent

-----------------------------------------------------------------------------
(* The sum of a budget's segments, whatever the order they are added in.     *)

BudgetSegments == {"systemAndTools", "repoMapRetrieval", "openFileWindows",
                   "conversationHistory", "reservedOutput"}
Part(f, t, k) == IF k \in t THEN f[k] ELSE 0
SumOf(f, t) == Part(f, t, "systemAndTools") + Part(f, t, "repoMapRetrieval")
                 + Part(f, t, "openFileWindows") + Part(f, t, "conversationHistory")
                 + Part(f, t, "reservedOutput")
One == [k \in BudgetSegments |-> 1]

LEMMA SumLess ==
  ASSUME NEW f \in [BudgetSegments -> Int], NEW t \in SUBSET BudgetSegments, NEW k \in t
  PROVE  SumOf(f, t) \in Int /\ SumOf(f, t) = f[k] + SumOf(f, t \ {k})
<1> DEFINE u == t \ {k}
<1>1. \A j \in BudgetSegments :
        /\ Part(f, t, j) \in Int /\ Part(f, u, j) \in Int
        /\ j # k => Part(f, u, j) = Part(f, t, j)
        /\ Part(f, u, k) = 0 /\ Part(f, t, k) = f[k]
  BY DEF Part
<1> HIDE DEF u
<1>2. k \in BudgetSegments /\ f[k] \in Int
  OBVIOUS
<1> QED  BY <1>1, <1>2 DEF SumOf, BudgetSegments, u

LEMMA SumOfAll ==
  ASSUME NEW f \in [BudgetSegments -> Int]
  PROVE  /\ SumFunction(f) \in Int
         /\ SumFunction(f) = f["systemAndTools"] + f["repoMapRetrieval"] + f["openFileWindows"]
                               + f["conversationHistory"] + f["reservedOutput"]
<1> DEFINE Chosen(t) == CHOOSE k \in t : TRUE
           Adds(g) == [t \in SUBSET BudgetSegments |->
                         IF t = {} THEN 0 ELSE f[Chosen(t)] + g[t \ {Chosen(t)}]]
<1>1. PICK g : g = (CHOOSE h : h = Adds(h)) /\ SumFunction(f) = g[BudgetSegments]
  <2>1. DOMAIN f = BudgetSegments
    OBVIOUS
  <2> QED  BY <2>1 DEF SumFunction, SumFunctionOnSet, FoldFunctionOnSet, MapThenFoldSet
<1>2. \A t \in SUBSET BudgetSegments : t # {} => Chosen(t) \in t
  OBVIOUS
<1> HIDE DEF Chosen
<1>3. ASSUME NEW t \in SUBSET BudgetSegments
      PROVE  SumOf(f, t) = IF t = {} THEN 0 ELSE f[Chosen(t)] + SumOf(f, t \ {Chosen(t)})
  <2>1. CASE t = {}
    BY <2>1 DEF SumOf, Part
  <2>2. CASE t # {}
    BY <1>2, <2>2, SumLess
  <2> QED  BY <2>1, <2>2
<1>4. \E h : h = Adds(h)
  <2> DEFINE h == [t \in SUBSET BudgetSegments |-> SumOf(f, t)]
  <2>1. \A t \in SUBSET BudgetSegments : t \ {Chosen(t)} \in SUBSET BudgetSegments
    OBVIOUS
  <2>2. h = Adds(h)
    BY <1>3, <2>1
  <2> QED  BY <2>2
<1>5. g = Adds(g)
  BY <1>1, <1>4
<1>6. \A t \in SUBSET BudgetSegments :
        g[t] = IF t = {} THEN 0 ELSE f[Chosen(t)] + g[t \ {Chosen(t)}]
  BY <1>5
<1> HIDE DEF Adds
<1>7. One \in [BudgetSegments -> Int] /\ \A k \in BudgetSegments : One[k] = 1
  BY DEF One
<1> DEFINE Agrees(n) == \A t \in SUBSET BudgetSegments : SumOf(One, t) = n => g[t] = SumOf(f, t)
<1>8. \A t \in SUBSET BudgetSegments : SumOf(One, t) = 0 => t = {}
  <2> SUFFICES ASSUME NEW t \in SUBSET BudgetSegments, SumOf(One, t) = 0 PROVE t = {}
    OBVIOUS
  <2>1. \A k \in BudgetSegments : Part(One, t, k) = IF k \in t THEN 1 ELSE 0
    BY <1>7 DEF Part
  <2> QED  BY <2>1 DEF SumOf, BudgetSegments
<1>9. Agrees(0)
  BY <1>3, <1>6, <1>8
<1>10. ASSUME NEW n \in Nat, Agrees(n)  PROVE Agrees(n + 1)
  <2> SUFFICES ASSUME NEW t \in SUBSET BudgetSegments, SumOf(One, t) = n + 1
      PROVE g[t] = SumOf(f, t)
    OBVIOUS
  <2>1. t # {}
    <3>1. SumOf(One, {}) = 0
      BY DEF SumOf, Part
    <3> QED  BY <3>1
  <2> DEFINE u == t \ {Chosen(t)}
  <2>2. Chosen(t) \in t /\ u \in SUBSET BudgetSegments
    BY <1>2, <2>1
  <2>3. /\ SumOf(One, t) \in Int /\ SumOf(One, t) = One[Chosen(t)] + SumOf(One, u)
        /\ One[Chosen(t)] = 1
    BY <1>7, <2>2, SumLess
  <2>4. SumOf(One, u) \in Int
    <3>1. \A k \in BudgetSegments : Part(One, u, k) \in Int
      BY <1>7 DEF Part
    <3> QED  BY <3>1 DEF SumOf, BudgetSegments
  <2>5. SumOf(One, u) = n
    BY <2>3, <2>4
  <2>6. g[u] = SumOf(f, u)
    BY <1>10, <2>2, <2>5
  <2> QED  BY <1>3, <1>6, <2>1, <2>6
<1>11. Agrees(1)
  BY <1>9, <1>10
<1>12. Agrees(2)
  BY <1>10, <1>11
<1>13. Agrees(3)
  BY <1>10, <1>12
<1>14. Agrees(4)
  BY <1>10, <1>13
<1>15. Agrees(5)
  BY <1>10, <1>14
<1>16. SumOf(One, BudgetSegments) = 5
  BY <1>7 DEF SumOf, Part, BudgetSegments
<1>17. g[BudgetSegments] = SumOf(f, BudgetSegments)
  BY <1>15, <1>16
<1>18. /\ SumOf(f, BudgetSegments) \in Int
       /\ SumOf(f, BudgetSegments) = f["systemAndTools"] + f["repoMapRetrieval"]
            + f["openFileWindows"] + f["conversationHistory"] + f["reservedOutput"]
  BY DEF SumOf, Part, BudgetSegments
<1> QED  BY <1>1, <1>17, <1>18

\* The segments are the whole of a context, and none but the reserve exceeds its
\* share (context-budget.ts).
LEMMA BudgetIsTheContext ==
  ASSUME NEW c \in Nat
  PROVE  LET b == ComputeContextBudget(c)
         IN /\ SumFunction(b) = c
            /\ \A k \in DOMAIN Percents \ {"reservedOutput"} : 100 * b[k] <= c * Percents[k]
<1> DEFINE share == [k \in DOMAIN Percents |-> (c * Percents[k]) \div 100]
           b == [share EXCEPT !.reservedOutput = @ + c - SumFunction(share)]
<1>1. DOMAIN Percents = BudgetSegments
  BY DEF Percents, BudgetSegments
<1>2. /\ Percents.systemAndTools = 15 /\ Percents.repoMapRetrieval = 20
      /\ Percents.openFileWindows = 30 /\ Percents.conversationHistory = 25
      /\ Percents.reservedOutput = 10
  BY DEF Percents
<1>3. \A k \in BudgetSegments : Percents[k] \in {10, 15, 20, 25, 30}
  BY <1>2 DEF BudgetSegments
<1>4. ASSUME NEW p \in {10, 15, 20, 25, 30}
      PROVE  (c * p) \div 100 \in Int /\ 100 * ((c * p) \div 100) <= c * p
  <2>1. c * p \in Nat
    OBVIOUS
  <2> DEFINE x == c * p
  <2>2. \A y \in Nat : y \div 100 \in Int /\ 100 * (y \div 100) <= y
    OBVIOUS
  <2> QED  BY <2>1, <2>2
<1>5. \A k \in BudgetSegments : share[k] \in Int /\ 100 * share[k] <= c * Percents[k]
  BY <1>1, <1>3, <1>4
<1>6. share \in [BudgetSegments -> Int]
  BY <1>1, <1>5
<1> HIDE DEF share
<1>7. /\ SumFunction(share) \in Int
      /\ SumFunction(share) = share["systemAndTools"] + share["repoMapRetrieval"]
           + share["openFileWindows"] + share["conversationHistory"] + share["reservedOutput"]
  BY <1>6, SumOfAll
<1>8. /\ b \in [BudgetSegments -> Int]
      /\ \A k \in BudgetSegments \ {"reservedOutput"} : b[k] = share[k]
      /\ b["reservedOutput"] = share["reservedOutput"] + c - SumFunction(share)
  BY <1>6, <1>7 DEF BudgetSegments
<1>9. ComputeContextBudget(c) = b
  BY DEF ComputeContextBudget, share
<1> HIDE DEF b
<1>10. /\ b["systemAndTools"] = share["systemAndTools"]
       /\ b["repoMapRetrieval"] = share["repoMapRetrieval"]
       /\ b["openFileWindows"] = share["openFileWindows"]
       /\ b["conversationHistory"] = share["conversationHistory"]
  BY <1>8 DEF BudgetSegments
<1>11. \A k \in BudgetSegments : share[k] \in Int
  BY <1>5
<1>12. SumFunction(b) = c
  <2>1. SumFunction(b) = b["systemAndTools"] + b["repoMapRetrieval"] + b["openFileWindows"]
                           + b["conversationHistory"] + b["reservedOutput"]
    BY <1>8, SumOfAll
  <2> QED  BY <1>7, <1>8, <1>10, <1>11, <2>1 DEF BudgetSegments
<1>13. \A k \in DOMAIN Percents \ {"reservedOutput"} : 100 * b[k] <= c * Percents[k]
  BY <1>1, <1>5, <1>8
<1> QED  BY <1>9, <1>12, <1>13

\* The prompt's rule for a small file is to rewrite it exactly when the one for a
\* large file is a fallback.
LEMMA GuidanceAgrees ==
  ASSUME NEW c, c.context \in Nat
  PROVE  EditFormatGuidance(c).small = "whole-file"
           <=> EditFormatGuidance(c).large \in {"reminded search-replace", "chunked whole-file"}
<1> DEFINE cap == WholeFileLocCap(c.context)
<1>1. ASSUME NEW x \in Int, NEW y \in Int
      PROVE  Max({x, y}) \in Int /\ Min({x, y}) \in Int
  <2> DEFINE S == {x, y}
  <2>1. \E z \in S : \A w \in S : z >= w
    OBVIOUS
  <2>2. \E z \in S : \A w \in S : z <= w
    OBVIOUS
  <2>3. Max(S) \in S
    BY <2>1 DEF Max
  <2>4. Min(S) \in S
    BY <2>2 DEF Min
  <2> QED  BY <2>3, <2>4
<1>2. cap \in Int
  <2> DEFINE lines == (c.context + 10) \div 20
             least == Min({lines, 4000})
  <2>1. lines \in Int
    OBVIOUS
  <2> HIDE DEF lines
  <2>2. least \in Int
    <3>1. ASSUME NEW x \in Int, NEW y \in Int, y = 4000  PROVE Min({x, y}) \in Int
      BY <1>1
    <3> QED  BY <2>1, <3>1
  <2>3. cap = Max({100, least})
    BY DEF WholeFileLocCap, lines
  <2> HIDE DEF least, cap
  <2> QED  BY <1>1, <2>2, <2>3
<1> HIDE DEF cap
<1>3. ~(cap + 1 <= cap)
  BY <1>2
<1> QED  BY <1>3 DEF EditFormatGuidance, SelectEditFormat, cap

-----------------------------------------------------------------------------
(* What a run takes from its model's profile.                                *)

\* A ladder that is being climbed: every haystack so far was recalled, and the
\* context is the last of them.
Climbs(probe) ==
  /\ probe.recalled \in Seq(Nat \cup {Missed})
  /\ \A i \in DOMAIN probe.recalled : probe.recalled[i] # Missed
  /\ Len(probe.recalled) < Len(Rungs)
  /\ probe.context = IF probe.recalled = <<>> THEN 0 ELSE probe.recalled[Len(probe.recalled)]

\* A ladder that was climbed as far as it went.
Climbed(probe) ==
  /\ probe.recalled \in Seq(Nat \cup {Missed}) /\ Len(probe.recalled) \in 1..Len(Rungs)
  /\ probe.context \in Nat
  /\ \/ ConfirmsContext(probe, probe.context)
     \/ probe.recalled = <<Missed>> /\ probe.context = 0

\* A profile that may be in a file: of a model that has it.
ProfileOf(profile, f) ==
  profile.model \in Models /\ FileOf[profile.model] = f /\ Climbed(profile)

ProbeTells(probe) ==
  probe.stage # "idle" =>
    /\ DOMAIN probe = DOMAIN NotProbing /\ probe.model \in Models
    /\ CASE probe.stage = "edits"             -> probe.recalled = <<>> /\ probe.context = 0
         [] probe.stage = "context"           -> Climbs(probe)
         [] probe.stage \in {"save", "write"} -> Climbed(probe)
         [] OTHER                             -> FALSE

CapabilityInv ==
  /\ DOMAIN probes = Probers /\ DOMAIN profiles = Files
  /\ \A p \in Probers : ProbeTells(probes[p])
  /\ \A f \in Files : \/ profiles[f] \in {NoProfile, EmptyProfile}
                      \/ ProfileOf(profiles[f], f)
  /\ RunFitsItsModel

LEMMA CapabilityInvInit == CapabilityInit => CapabilityInv
BY DEF CapabilityInit, CapabilityInv, ProbeTells, NotProbing, RunFitsItsModel

\* A haystack more, found or missed.
LEMMA ClimbingGoesOn ==
  ASSUME NEW probe, DOMAIN probe = DOMAIN NotProbing, Climbs(probe),
         NEW found \in Nat \cup {Missed}, NEW next,
         next = [probe EXCEPT !.context = IF found = Missed THEN @ ELSE found,
                              !.recalled = Append(@, found),
                              !.stage = NextStage(probe, found)]
  PROVE  IF next.stage = "context" THEN Climbs(next) ELSE next.stage = "save" /\ Climbed(next)
<1> DEFINE seen == probe.recalled
           n == Len(seen)
<1>1. /\ seen \in Seq(Nat \cup {Missed}) /\ n \in Nat /\ n < Len(Rungs) /\ DOMAIN seen = 1..n
      /\ \A i \in 1..n : seen[i] \in Nat \cup {Missed} /\ seen[i] # Missed
      /\ Len(Rungs) \in Nat
  BY CapabilityAssumption DEF Climbs
<1>2. /\ next.recalled = Append(seen, found) /\ next.stage = NextStage(probe, found)
      /\ next.context = IF found = Missed THEN probe.context ELSE found
  BY DEF NotProbing
<1>3. probe.context = IF n = 0 THEN 0 ELSE seen[n]
  BY <1>1 DEF Climbs
<1> HIDE DEF seen
<1>4. /\ next.recalled \in Seq(Nat \cup {Missed}) /\ Len(next.recalled) = n + 1
      /\ DOMAIN next.recalled = 1..(n + 1)
      /\ next.recalled[n + 1] = found /\ \A i \in 1..n : next.recalled[i] = seen[i]
  <2> DEFINE S == Nat \cup {Missed}
             longer == Append(seen, found)
  <2>1. seen \in Seq(S) /\ found \in S
    BY <1>1
  <2> HIDE DEF S
  <2>2. /\ longer \in Seq(S) /\ Len(longer) = n + 1
        /\ longer[n + 1] = found /\ \A i \in 1..n : longer[i] = seen[i]
    BY <2>1, AppendProperties DEF n
  <2>3. DOMAIN longer = 1..(n + 1)
    BY <2>2
  <2> QED  BY <1>2, <2>2, <2>3 DEF S
<1>5. probe.context \in Nat
  BY <1>1, <1>3
<1> HIDE DEF n
<1>6. CASE found = Missed
  <2>1. next.stage = "save" /\ next.context = probe.context
    BY <1>2, <1>6 DEF NextStage
  <2>2. CASE n = 0
    <3>1. next.context = 0
      BY <1>3, <2>1, <2>2
    <3>2. next.recalled = <<Missed>>
      <4>1. seen = <<>>
        BY <1>1, <2>2, EmptySeq DEF n
      <4> QED  BY <1>2, <1>6, <4>1
    <3> QED  BY <1>1, <1>4, <2>1, <2>2, <3>1, <3>2 DEF Climbed
  <2>3. CASE n # 0
    <3>1. /\ n \in DOMAIN next.recalled /\ next.context = next.recalled[n]
          /\ \A i \in 1..n : next.recalled[i] # Missed
          /\ n + 1 = Len(next.recalled) /\ next.recalled[n + 1] = Missed
      BY <1>1, <1>3, <1>4, <1>6, <2>1, <2>3
    <3>2. ConfirmsContext(next, next.context)
      BY <3>1 DEF ConfirmsContext
    <3> QED  BY <1>1, <1>4, <1>5, <2>1, <3>2 DEF Climbed
  <2> QED  BY <2>2, <2>3
<1>7. CASE found # Missed /\ n + 1 < Len(Rungs)
  <2>1. next.stage = "context" /\ next.context = found
    BY <1>2, <1>7 DEF NextStage, n, seen
  <2>2. \A i \in 1..(n + 1) : next.recalled[i] # Missed
    <3>1. \A i \in 1..(n + 1) : i \in 1..n \/ i = n + 1
      BY <1>1
    <3>2. \A i \in 1..n : next.recalled[i] # Missed
      BY <1>1, <1>4
    <3> QED  BY <1>4, <1>7, <3>1, <3>2
  <2>3. next.recalled # <<>>
    BY <1>1, <1>4
  <2> QED  BY <1>4, <1>7, <2>1, <2>2, <2>3 DEF Climbs
<1>8. CASE found # Missed /\ ~(n + 1 < Len(Rungs))
  <2>1. next.stage = "save" /\ next.context = found /\ n + 1 = Len(Rungs)
    BY <1>1, <1>2, <1>8 DEF NextStage, n, seen
  <2>2. /\ n + 1 \in DOMAIN next.recalled /\ next.context = next.recalled[n + 1]
        /\ \A i \in 1..(n + 1) : next.recalled[i] # Missed
        /\ ~(n + 1 < Len(Rungs))
    BY <1>1, <1>4, <1>8, <2>1
  <2>3. ConfirmsContext(next, next.context)
    BY <2>2 DEF ConfirmsContext
  <2>4. next.context \in Nat
    BY <1>8, <2>1
  <2> QED  BY <1>1, <1>4, <2>1, <2>3, <2>4 DEF Climbed
<1> QED  BY <1>6, <1>7, <1>8

\* What may be read from a profile file.
LEMMA SavedTells ==
  ASSUME CapabilityInv, NEW m \in Models
  PROVE  /\ FileOf[m] \in Files
         /\ \/ Saved(m) \in {NoProfile, EmptyProfile}
            \/ ProfileOf(Saved(m), FileOf[m])
BY DEF CapabilityInv, Files, Saved

LEMMA StartedRunFits ==
  ASSUME CapabilityInv, NEW m \in Models, StartRun(m)
  PROVE  RunFitsItsModel'
<1> DEFINE c == ResolveCapability(m)
           b == ComputeContextBudget(c.context)
<1>1. Saved(m) # EmptyProfile /\ c.context > 0
  BY DEF StartRun, Budgets
<1>2. CASE Saved(m) = NoProfile
  <2>1. c.context = DefaultContext /\ c.context \in Nat
    BY <1>2, CapabilityAssumption DEF ResolveCapability
  <2> QED  BY <1>2, <2>1, GuidanceAgrees, BudgetIsTheContext DEF StartRun, RunFitsItsModel
<1>3. CASE Saved(m) # NoProfile
  <2>1. /\ Saved(m).model \in Models /\ FileOf[Saved(m).model] = FileOf[m]
        /\ Climbed(Saved(m))
    BY <1>1, <1>3, SavedTells DEF ProfileOf
  <2>2. c.context = Saved(m).context /\ c.context \in Nat
    BY <1>3, <2>1 DEF ResolveCapability, Climbed
  <2>3. ConfirmsContext(Saved(m), c.context)
    BY <1>1, <2>1, <2>2 DEF Climbed
  <2>4. Saved(m).model = m \/ SharesItsFile(m)
    BY <2>1 DEF SharesItsFile
  <2> QED  BY <1>3, <2>1, <2>2, <2>3, <2>4, GuidanceAgrees, BudgetIsTheContext
           DEF StartRun, RunFitsItsModel
<1> QED  BY <1>2, <1>3

LEMMA RefusedRunFits ==
  ASSUME CapabilityInv, NEW m \in Models, RefuseRun(m)
  PROVE  RunFitsItsModel'
<1>1. started' = [model |-> m, profile |-> Saved(m), refused |-> TRUE] /\ ~Budgets(m)
  BY DEF RefuseRun
<1>2. CASE Saved(m) = EmptyProfile
  BY <1>1, <1>2 DEF RunFitsItsModel
<1>3. CASE Saved(m) # EmptyProfile
  <2>1. ~(ResolveCapability(m).context > 0)
    BY <1>1, <1>3 DEF Budgets
  <2>2. Saved(m) # NoProfile
    <3>1. DefaultContext \in Nat \ {0}
      BY CapabilityAssumption
    <3> QED  BY <2>1, <3>1 DEF ResolveCapability
  <2>3. Climbed(Saved(m)) /\ ~(Saved(m).context > 0)
    BY <1>3, <2>1, <2>2, SavedTells DEF ResolveCapability, ProfileOf
  <2>4. Saved(m).context = 0
    BY <2>3 DEF Climbed
  <2>5. Saved(m).recalled = <<Missed>> \/ 0 \in Range(Saved(m).recalled)
    BY <2>3, <2>4 DEF Climbed, ConfirmsContext, Range
  <2> QED  BY <1>1, <2>5 DEF RunFitsItsModel
<1> QED  BY <1>2, <1>3

LEMMA CapabilityInvNext == CapabilityInv /\ [CapabilityNext]_capabilityVars => CapabilityInv'
<1> SUFFICES ASSUME CapabilityInv, [CapabilityNext]_capabilityVars PROVE CapabilityInv'
  OBVIOUS
<1>1. /\ DOMAIN probes = Probers /\ DOMAIN profiles = Files
      /\ \A p \in Probers : ProbeTells(probes[p])
      /\ \A f \in Files : \/ profiles[f] \in {NoProfile, EmptyProfile}
                          \/ ProfileOf(profiles[f], f)
      /\ RunFitsItsModel
  BY DEF CapabilityInv
<1>2. NotProbing.stage = "idle" /\ ProbeTells(NotProbing)
  BY DEF NotProbing, ProbeTells
\* A probe goes on, and nothing else changes.
<1>3. ASSUME NEW p \in Probers, NEW next, probes' = [probes EXCEPT ![p] = next],
             ProbeTells(next), UNCHANGED <<profiles, started>>
      PROVE  CapabilityInv'
  <2>1. \A q \in Probers : probes'[q] = IF q = p THEN next ELSE probes[q]
    BY <1>1, <1>3
  <2> QED  BY <1>1, <1>3, <2>1 DEF CapabilityInv, RunFitsItsModel
<1>4. ASSUME NEW p \in Probers, NEW m \in Models, NEW force \in BOOLEAN, ProbeModel(p, m, force)
      PROVE  CapabilityInv'
  <2> DEFINE next == [NotProbing EXCEPT !.stage = "edits", !.model = m]
  <2>1. ProbeTells(next)
    BY DEF ProbeTells, NotProbing
  <2>2. probes' = [probes EXCEPT ![p] = next] /\ UNCHANGED <<profiles, started>>
    BY <1>4 DEF ProbeModel
  <2> HIDE DEF next
  <2> QED  BY <1>3, <2>1, <2>2
<1>5. ASSUME NEW p \in Probers, RunDiffAccuracyTrials(p)  PROVE CapabilityInv'
  <2>1. PICK trials \in [1..Trials -> TrialOutcomes] :
          probes' = [probes EXCEPT
            ![p].accuracy = Quantify(DOMAIN trials, LAMBDA i : trials[i].applied),
            ![p].transport = DeriveToolTransport(trials),
            ![p].stage = "context"]
    BY <1>5 DEF RunDiffAccuracyTrials
  <2>2. PICK accuracy, transport :
          probes' = [probes EXCEPT ![p].accuracy = accuracy, ![p].transport = transport,
                                   ![p].stage = "context"]
    BY <2>1
  <2> DEFINE next == [probes[p] EXCEPT !.accuracy = accuracy, !.transport = transport,
                                       !.stage = "context"]
  <2>3. /\ DOMAIN probes[p] = DOMAIN NotProbing /\ probes[p].model \in Models
        /\ probes[p].recalled = <<>> /\ probes[p].context = 0
    BY <1>1, <1>5 DEF RunDiffAccuracyTrials, ProbeTells
  <2>4. /\ DOMAIN next = DOMAIN NotProbing /\ next.model = probes[p].model
        /\ next.recalled = <<>> /\ next.context = 0 /\ next.stage = "context"
    BY <2>3 DEF NotProbing
  <2>5. Climbs(next)
    <3>1. <<>> \in Seq(Nat \cup {Missed}) /\ Len(<<>>) = 0 /\ DOMAIN <<>> = {}
      OBVIOUS
    <3>2. 0 < Len(Rungs)
      BY CapabilityAssumption
    <3> HIDE DEF next
    <3> QED  BY <2>4, <3>1, <3>2 DEF Climbs
  <2>6. ProbeTells(next)
    BY <2>3, <2>4, <2>5 DEF ProbeTells
  <2>7. probes' = [probes EXCEPT ![p] = next] /\ UNCHANGED <<profiles, started>>
    BY <1>1, <1>5, <2>2 DEF RunDiffAccuracyTrials
  <2> HIDE DEF next
  <2> QED  BY <1>3, <2>6, <2>7
<1>6. ASSUME NEW p \in Probers, CheckEffectiveContext(p)  PROVE CapabilityInv'
  <2> DEFINE probe == probes[p]
             rung == Rungs[Len(probe.recalled) + 1]
             Next(found) == [probe EXCEPT !.context = IF found = Missed THEN @ ELSE found,
                                          !.recalled = Append(@, found),
                                          !.stage = NextStage(probe, found)]
  <2>1. DOMAIN probe = DOMAIN NotProbing /\ probe.model \in Models /\ Climbs(probe)
    BY <1>1, <1>6 DEF CheckEffectiveContext, ProbeTells
  <2>2. rung \in Nat
    <3>1. Len(probe.recalled) + 1 \in 1..Len(Rungs)
      BY <2>1, CapabilityAssumption DEF Climbs
    <3> QED  BY <3>1, CapabilityAssumption
  <2>3. PICK found \in Confirms(rung) \cup {Missed} :
          /\ probes' = [probes EXCEPT
               ![p].context = IF found = Missed THEN @ ELSE found,
               ![p].recalled = Append(@, found),
               ![p].stage = NextStage(probe, found)]
          /\ UNCHANGED <<profiles, probed, started>>
    BY <1>6 DEF CheckEffectiveContext
  <2>4. found \in Nat \cup {Missed}
    <3>1. (rung + 2) \div 4 \in Nat
      <4>1. \A x \in Nat : (x + 2) \div 4 \in Nat
        OBVIOUS
      <4> QED  BY <2>2, <4>1
    <3> QED  BY <3>1, CapabilityAssumption DEF Confirms
  <2>5. probes' = [probes EXCEPT ![p] = Next(found)]
    BY <1>1, <2>3
  <2>6. DOMAIN Next(found) = DOMAIN NotProbing /\ Next(found).model = probe.model
    BY <2>1 DEF NotProbing
  <2>7. IF Next(found).stage = "context" THEN Climbs(Next(found))
        ELSE Next(found).stage = "save" /\ Climbed(Next(found))
    BY <2>1, <2>4, ClimbingGoesOn
  <2> DEFINE next == Next(found)
  <2> HIDE DEF Next
  <2>8. ProbeTells(next)
    BY <2>1, <2>6, <2>7 DEF ProbeTells
  <2> HIDE DEF next
  <2>9. probes' = [probes EXCEPT ![p] = next]
    BY <2>5 DEF next
  <2> QED  BY <1>3, <2>3, <2>8, <2>9
<1>7. ASSUME NEW p \in Probers, SaveTruncates(p)  PROVE CapabilityInv'
  <2> DEFINE next == [probes[p] EXCEPT !.stage = "write"]
  <2>1. /\ DOMAIN probes[p] = DOMAIN NotProbing /\ probes[p].model \in Models
        /\ Climbed(probes[p])
    BY <1>1, <1>7 DEF SaveTruncates, ProbeTells
  <2>2. /\ DOMAIN next = DOMAIN NotProbing /\ next.model = probes[p].model
        /\ next.recalled = probes[p].recalled /\ next.context = probes[p].context
        /\ next.stage = "write"
    BY <2>1 DEF NotProbing
  <2>3. ProbeTells(next)
    BY <2>1, <2>2 DEF ProbeTells, Climbed, ConfirmsContext
  <2>4. \A q \in Probers : probes'[q] = IF q = p THEN next ELSE probes[q]
    BY <1>1, <1>7 DEF SaveTruncates
  <2>5. \A f \in Files : profiles'[f] = IF f = FileOf[probes[p].model] THEN EmptyProfile
                                        ELSE profiles[f]
    BY <1>1, <1>7 DEF SaveTruncates
  <2>6. DOMAIN probes' = Probers /\ DOMAIN profiles' = Files /\ UNCHANGED started
    BY <1>1, <1>7 DEF SaveTruncates
  <2> HIDE DEF next
  <2> QED  BY <1>1, <2>3, <2>4, <2>5, <2>6 DEF CapabilityInv, RunFitsItsModel
<1>8. ASSUME NEW p \in Probers, SaveWrites(p)  PROVE CapabilityInv'
  <2> DEFINE file == [probes[p] EXCEPT !.stage = "idle"]
  <2>1. /\ DOMAIN probes[p] = DOMAIN NotProbing /\ probes[p].model \in Models
        /\ Climbed(probes[p])
    BY <1>1, <1>8 DEF SaveWrites, ProbeTells
  <2>2. /\ file.model = probes[p].model
        /\ file.recalled = probes[p].recalled /\ file.context = probes[p].context
    BY <2>1 DEF NotProbing
  <2>3. ProfileOf(file, FileOf[file.model])
    BY <2>1, <2>2 DEF ProfileOf, Climbed, ConfirmsContext
  <2>4. \A q \in Probers : probes'[q] = IF q = p THEN NotProbing ELSE probes[q]
    BY <1>1, <1>8 DEF SaveWrites
  <2>5. \A f \in Files : profiles'[f] = IF f = FileOf[file.model] THEN file ELSE profiles[f]
    BY <1>1, <1>8, <2>2 DEF SaveWrites
  <2>6. DOMAIN probes' = Probers /\ DOMAIN profiles' = Files /\ UNCHANGED started
    BY <1>1, <1>8 DEF SaveWrites
  <2> HIDE DEF file
  <2> QED  BY <1>1, <1>2, <2>3, <2>4, <2>5, <2>6 DEF CapabilityInv, RunFitsItsModel
<1>9. ASSUME NEW p \in Probers, ProberStops(p)  PROVE CapabilityInv'
  BY <1>2, <1>3, <1>9 DEF ProberStops
<1>10. ASSUME NEW m \in Models, StartRun(m) \/ RefuseRun(m)  PROVE CapabilityInv'
  <2>1. RunFitsItsModel'
    BY <1>10, StartedRunFits, RefusedRunFits
  <2>2. UNCHANGED <<profiles, probes>>
    BY <1>10 DEF StartRun, RefuseRun
  <2> QED  BY <1>1, <2>1, <2>2 DEF CapabilityInv
<1>11. CASE UNCHANGED capabilityVars
  BY <1>1, <1>11 DEF capabilityVars, CapabilityInv, RunFitsItsModel
<1> QED  BY <1>4, <1>5, <1>6, <1>7, <1>8, <1>9, <1>10, <1>11 DEF CapabilityNext

\* A run works within what its model was seen to recall: its segments are the
\* whole of the context that one completed probe confirmed, or of the default
\* (probe.ts, budget.ts:38-66).
THEOREM RunsAlwaysFitTheirModel == CapabilitySpec => []RunFitsItsModel
<1>1. CapabilityInv => RunFitsItsModel
  BY DEF CapabilityInv
<1> QED  BY <1>1, CapabilityInvInit, CapabilityInvNext, PTL DEF CapabilitySpec

-----------------------------------------------------------------------------
(* The evaluation harness.  A directory is never deleted before it is used    *)
(* again, so the check is held out only because no cell ever gets the         *)
(* directory of another: the invariant names the cell of every directory.     *)

Cells == [repetition : 1..Repetitions, index : 1..Len(suite), arm : {"clutchcode", "naked"}]

\* Cell d was run before cell c.
Earlier(d, c) ==
  \/ d.repetition < c.repetition
  \/ d.repetition = c.repetition /\ d.index < c.index
  \/ /\ d.repetition = c.repetition /\ d.index = c.index
     /\ d.arm = "clutchcode" /\ c.arm = "naked"

DirOf(d) == TaskDir(d, suite[d.index])

ScratchInv ==
  \A dir \in scratch : \E d \in Cells :
    dir = DirOf(d) /\ (Earlier(d, cell) \/ (d = cell /\ stage # "check"))

EvalTypes ==
  /\ EvalTypeOK /\ cell \in Cells
  /\ named => IsInjective(suite)
  /\ clutchcode \in Seq(Range(clutchcode)) /\ naked \in Seq(Range(naked))

EvalInv == EvalTypes /\ ScratchInv /\ OracleStaysHeldOut

\* Two cells have two directories.
LEMMA CellsHaveTheirOwnDirectory ==
  ASSUME EvalTypes, NEW c \in Cells, NEW d \in Cells, DirOf(c) = DirOf(d)
  PROVE  c = d
<1>1. suite \in Seq(AllTasks)
  BY EvalAssumption DEF EvalTypes, EvalTypeOK
<1>2. c.arm = d.arm /\ c.repetition = d.repetition
  BY DEF DirOf, TaskDir
<1>3. c.index = d.index
  <2>1. CASE ~named
    BY <2>1 DEF DirOf, TaskDir
  <2>2. CASE named
    <3>1. suite[c.index] = suite[d.index] /\ IsInjective(suite)
      BY <2>2 DEF DirOf, TaskDir, EvalTypes
    <3>2. c.index \in DOMAIN suite /\ d.index \in DOMAIN suite
      BY <1>1 DEF Cells
    <3>3. QED
      BY <3>1, <3>2 DEF IsInjective
  <2>3. QED
    BY <2>1, <2>2
<1>4. QED
  BY <1>2, <1>3 DEF Cells

\* No cell was run before itself.
LEMMA NoneBeforeItself == ASSUME NEW c \in Cells PROVE ~Earlier(c, c)
  BY EvalAssumption DEF Cells, Earlier

\* One more observation is the only new one.
LEMMA OneMoreObservation ==
  ASSUME NEW arm, arm \in Seq(Range(arm)), NEW o
  PROVE  /\ Append(arm, o) \in Seq(Range(Append(arm, o)))
         /\ Range(Append(arm, o)) \ Range(arm) \subseteq {o}
<1>1. /\ Len(arm) \in Nat /\ DOMAIN arm = 1..Len(arm)
      /\ DOMAIN Append(arm, o) = 1..(Len(arm) + 1)
      /\ \A k \in DOMAIN arm : Append(arm, o)[k] = arm[k]
      /\ Append(arm, o)[Len(arm) + 1] = o
  OBVIOUS
<1>2. Range(Append(arm, o)) = Range(arm) \cup {o}
  BY <1>1 DEF Range
<1>3. Append(arm, o) \in Seq(Range(arm) \cup {o})
  OBVIOUS
<1>4. QED
  BY <1>2, <1>3

LEMMA EvalStart == EvalInit => EvalInv
<1> SUFFICES ASSUME EvalInit PROVE EvalInv
  OBVIOUS
<1>1. suite \in Seq(AllTasks) /\ Len(suite) \in Nat \ {0} /\ DOMAIN suite = 1..Len(suite)
  BY EvalAssumption DEF EvalInit
<1>2. EvalTypes
  <2>1. cell \in Cells /\ cell.repetition \in 1..Repetitions /\ cell.index \in DOMAIN suite
    BY <1>1, EvalAssumption DEF EvalInit, Cells
  <2>2. EvalTypeOK
    BY <2>1 DEF EvalInit, EvalTypeOK, Repos, Gone
  <2>3. <<>> \in Seq(Range(<<>>))
    OBVIOUS
  <2>4. QED
    BY <2>1, <2>2, <2>3 DEF EvalInit, EvalTypes
<1>3. QED
  BY <1>2 DEF EvalInit, EvalInv, ScratchInv, OracleStaysHeldOut

\* The comparison goes on to the next cell, with the directories it had.
LEMMA AdvanceStep ==
  ASSUME EvalInv, Advance, UNCHANGED options,
         asked' \in [AllTasks -> {"unasked", "yes", "no"}],
         clutchcode' \in Seq(Range(clutchcode')), naked' \in Seq(Range(naked'))
  PROVE  EvalInv'
<1> USE DEF EvalInv, options
<1>1. /\ suite \in Seq(AllTasks) /\ Len(suite) \in Nat \ {0} /\ DOMAIN suite = 1..Len(suite)
      /\ UNCHANGED <<suite, keep, named>> /\ Repetitions \in Nat \ {0}
  BY EvalAssumption DEF EvalTypes, EvalTypeOK
<1>2. /\ work' = Gone /\ claim' = FALSE /\ scratch' \subseteq scratch
      /\ stage' \in {"check", "report"}
      /\ stage' = "check" => cell' = NextCell /\ ~(LastCell /\ cell.arm = "naked")
      /\ stage' = "report" => cell' = cell
  BY DEF Advance, Removed
<1>3. cell' \in Cells
  <2>1. CASE stage' = "report"
    BY <1>2, <2>1 DEF EvalTypes
  <2>2. CASE stage' = "check"
    <3>1. cell' = NextCell /\ cell \in Cells /\ ~(LastCell /\ cell.arm = "naked")
      BY <1>2, <2>2 DEF EvalTypes
    <3>2. CASE cell.arm = "clutchcode"
      BY <3>1, <3>2 DEF NextCell, Cells
    <3>3. CASE cell.arm = "naked" /\ cell.index < Len(suite)
      <4>1. cell.index + 1 \in 1..Len(suite)
        BY <1>1, <3>1, <3>3 DEF Cells
      <4>2. cell' = [repetition |-> cell.repetition, index |-> cell.index + 1, arm |-> "clutchcode"]
        BY <3>1, <3>3 DEF NextCell, Cells
      <4>3. QED
        BY <3>1, <4>1, <4>2 DEF Cells
    <3>4. CASE cell.arm = "naked" /\ cell.index = Len(suite)
      <4>1. cell.repetition + 1 \in 1..Repetitions
        BY <1>1, <3>1, <3>4 DEF LastCell, Cells
      <4>2. NextCell = [repetition |-> cell.repetition + 1, index |-> 1, arm |-> "clutchcode"]
        BY <1>1, <3>4 DEF NextCell
      <4>3. QED
        BY <1>1, <3>1, <4>1, <4>2 DEF Cells
    <3>5. QED
      BY <1>1, <3>1, <3>2, <3>3, <3>4 DEF Cells
  <2>3. QED
    BY <1>2, <2>1, <2>2
<1>4. cell'.repetition \in 1..Repetitions /\ cell'.index \in DOMAIN suite
      /\ cell'.arm \in {"clutchcode", "naked"}
  BY <1>1, <1>3 DEF Cells
<1>5. EvalTypes'
  <2>1. EvalTypeOK'
    BY <1>1, <1>2, <1>4 DEF EvalTypes, EvalTypeOK, Repos, Gone
  <2>2. cell' \in Cells'
    BY <1>1, <1>3 DEF Cells
  <2>3. QED
    BY <1>1, <2>1, <2>2 DEF EvalTypes
<1>6. ScratchInv'
  <2>1. SUFFICES ASSUME NEW dir \in scratch
                 PROVE  \E d \in Cells : /\ dir = DirOf(d)
                                         /\ Earlier(d, cell') \/ (d = cell' /\ stage' # "check")
    BY <1>1, <1>2 DEF ScratchInv, Cells, DirOf, TaskDir
  <2>2. PICK d \in Cells : dir = DirOf(d) /\ (Earlier(d, cell) \/ d = cell)
    BY DEF ScratchInv
  <2>3. CASE stage' = "report"
    BY <1>2, <2>2, <2>3
  <2>4. CASE stage' = "check"
    <3>1. cell' = NextCell /\ cell \in Cells
      BY <1>2, <2>4 DEF EvalTypes
    <3>2. Earlier(d, NextCell)
      BY <1>1, <2>2, <3>1 DEF Earlier, NextCell, Cells
    <3>3. QED
      BY <2>2, <3>1, <3>2
  <2>5. QED
    BY <1>2, <2>3, <2>4
<1>7. OracleStaysHeldOut'
  BY <1>2 DEF OracleStaysHeldOut
<1>8. QED
  BY <1>5, <1>6, <1>7

\* A cell starts in a directory that nothing was in before.
LEMMA MaterializeStep == EvalInv /\ Materialize => EvalInv'
<1> SUFFICES ASSUME EvalInv, Materialize PROVE EvalInv'
  OBVIOUS
<1> USE DEF EvalInv
<1>1. /\ stage = "check" /\ stage' = "work" /\ UNCHANGED <<suite, keep, named, cell, claim>>
      /\ UNCHANGED <<clutchcode, naked>>
      /\ work' = Materialized(DirOf(cell)) /\ scratch' = scratch \cup {DirOf(cell)}
      /\ cell \in Cells
  BY DEF Materialize, options, DirOf, Task, EvalTypes
<1>2. DirOf(cell) \notin scratch
  BY <1>1, CellsHaveTheirOwnDirectory, NoneBeforeItself DEF ScratchInv
<1>3. work' = [code |-> "fixture", check |-> "none"]
  BY <1>1, <1>2 DEF Materialized
<1>4. asked' \in [AllTasks -> {"unasked", "yes", "no"}]
  BY DEF Materialize, EvalTypes, EvalTypeOK
<1>5. EvalTypes'
  BY <1>1, <1>3, <1>4 DEF EvalTypes, EvalTypeOK, Cells, Repos
<1>6. ScratchInv'
  <2>1. \A dir \in scratch : \E d \in Cells : dir = DirOf(d) /\ Earlier(d, cell)
    BY <1>1 DEF ScratchInv
  <2>2. \A dir \in scratch' : \E d \in Cells : dir = DirOf(d) /\ (Earlier(d, cell) \/ d = cell)
    BY <1>1, <2>1
  <2>3. QED
    BY <1>1, <2>2 DEF ScratchInv, Cells, DirOf, TaskDir
<1>7. QED
  BY <1>3, <1>5, <1>6 DEF OracleStaysHeldOut

\* What an arm leaves, and a harness that throws, bring no directory.
LEMMA ArmStep ==
  ASSUME EvalInv, AgentEnds \/ AgentThrows \/ ModelReplies \/ HarnessThrows \/ Report
  PROVE  EvalInv' /\ UNCHANGED <<clutchcode, naked>>
<1> USE DEF EvalInv
<1>1. /\ UNCHANGED <<suite, keep, named, asked, cell, clutchcode, naked>>
      /\ scratch' \subseteq scratch /\ stage # "check"
      /\ stage' \in {"grade", "over"}
  BY DEF AgentEnds, AgentThrows, ModelReplies, HarnessThrows, Report, options, Removed
<1>2. work' \in Repos
  BY DEF AgentEnds, AgentThrows, ModelReplies, HarnessThrows, Report, Leaves, Repos,
     EvalTypes, EvalTypeOK
<1>3. claim' \in BOOLEAN
  BY DEF AgentEnds, AgentThrows, ModelReplies, HarnessThrows, Report, EvalTypes, EvalTypeOK
<1>4. EvalTypes'
  BY <1>1, <1>2, <1>3 DEF EvalTypes, EvalTypeOK, Cells
<1>5. ScratchInv'
  <2>1. \A dir \in scratch' : \E d \in Cells : dir = DirOf(d) /\ (Earlier(d, cell) \/ d = cell)
    BY <1>1 DEF ScratchInv
  <2>2. QED
    BY <1>1, <2>1 DEF ScratchInv, Cells, DirOf, TaskDir
<1>6. QED
  BY <1>1, <1>4, <1>5 DEF OracleStaysHeldOut

\* An observation is one more of its arm, and what it says of the check is what
\* the arm's repository says.
LEMMA ObserveFacts ==
  ASSUME EvalInv, NEW refused, NEW passed, Observe(refused, passed)
  PROVE  /\ clutchcode' \in Seq(Range(clutchcode')) /\ naked' \in Seq(Range(naked'))
         /\ \A o \in (Range(clutchcode') \ Range(clutchcode)) \cup (Range(naked') \ Range(naked)) :
              o.solved => passed
<1> DEFINE o == [task |-> Task, repetition |-> cell.repetition, refused |-> refused,
                 claimed |-> claim, passed |-> passed,
                 solved |-> passed /\ (cell.arm = "clutchcode" => claim)]
<1>1. /\ clutchcode' \in {clutchcode, Append(clutchcode, o)}
      /\ naked' \in {naked, Append(naked, o)}
      /\ o.solved => passed
  BY DEF Observe
<1> HIDE DEF o
<1>2. clutchcode \in Seq(Range(clutchcode)) /\ naked \in Seq(Range(naked))
  BY DEF EvalInv, EvalTypes
<1>3. clutchcode' \in Seq(Range(clutchcode')) /\ Range(clutchcode') \ Range(clutchcode) \subseteq {o}
  <2>1. /\ Append(clutchcode, o) \in Seq(Range(Append(clutchcode, o)))
        /\ Range(Append(clutchcode, o)) \ Range(clutchcode) \subseteq {o}
    BY <1>2, OneMoreObservation
  <2>2. CASE clutchcode' = clutchcode
    BY <1>2, <2>2
  <2>3. CASE clutchcode' = Append(clutchcode, o)
    BY <2>1, <2>3
  <2>4. QED
    BY <1>1, <2>2, <2>3
<1>4. naked' \in Seq(Range(naked')) /\ Range(naked') \ Range(naked) \subseteq {o}
  <2>1. /\ Append(naked, o) \in Seq(Range(Append(naked, o)))
        /\ Range(Append(naked, o)) \ Range(naked) \subseteq {o}
    BY <1>2, OneMoreObservation
  <2>2. CASE naked' = naked
    BY <1>2, <2>2
  <2>3. CASE naked' = Append(naked, o)
    BY <2>1, <2>3
  <2>4. QED
    BY <1>1, <2>2, <2>3
<1>5. QED
  BY <1>1, <1>3, <1>4

\* Every step of a comparison keeps the check held out, and calls only what is right solved.
LEMMA EvalStep == EvalInv /\ [EvalNext]_evalVars => EvalInv' /\ SolvedIsRight
<1> SUFFICES ASSUME EvalInv, [EvalNext]_evalVars PROVE EvalInv' /\ SolvedIsRight
  OBVIOUS
<1>1. ASSUME NEW passed, NEW refused, Observe(refused, passed), Advance, UNCHANGED options,
             asked' \in [AllTasks -> {"unasked", "yes", "no"}],
             passed => work.code = "right"
      PROVE  EvalInv' /\ SolvedIsRight
  BY <1>1, ObserveFacts, AdvanceStep DEF SolvedIsRight
<1>2. asked \in [AllTasks -> {"unasked", "yes", "no"}]
  BY DEF EvalInv, EvalTypes, EvalTypeOK
<1>3. CASE Refuse
  BY <1>1, <1>2, <1>3 DEF Refuse
<1>4. CASE ModelThrows
  BY <1>1, <1>2, <1>4 DEF ModelThrows
<1>5. CASE Grade
  <2>1. PICK timedOut \in BOOLEAN : Observe(FALSE, OraclePasses(WithOracle(work), timedOut))
    BY <1>5 DEF Grade
  <2>2. OraclePasses(WithOracle(work), timedOut) => work.code = "right"
    BY DEF OraclePasses, WithOracle, EvalInv, EvalTypes, EvalTypeOK, Repos
  <2>3. QED
    BY <1>1, <1>2, <1>5, <2>1, <2>2 DEF Grade
<1>6. ASSUME UNCHANGED <<clutchcode, naked>> PROVE SolvedIsRight
  BY <1>6 DEF SolvedIsRight
<1>7. CASE Materialize
  BY <1>6, <1>7, MaterializeStep DEF Materialize
<1>8. CASE AgentEnds \/ AgentThrows \/ ModelReplies \/ HarnessThrows \/ Report
  BY <1>6, <1>8, ArmStep
<1>9. CASE UNCHANGED evalVars
  <2>1. EvalInv'
    BY <1>9 DEF evalVars, EvalInv, EvalTypes, EvalTypeOK, Cells, ScratchInv, DirOf, TaskDir,
       OracleStaysHeldOut
  <2>2. QED
    BY <1>6, <1>9, <2>1 DEF evalVars
<1>10. QED
  BY <1>3, <1>4, <1>5, <1>7, <1>8, <1>9 DEF EvalNext

\* The check an arm is graded by is never in the repository it works on, in whatever
\* order suites repeat their tasks, and only code that is right is called solved,
\* whatever test the arm wrote in the place of the check.
THEOREM VerdictsAreAlwaysFair == EvalSpec => VerdictsAreFair
<1>1. EvalInv /\ [EvalNext]_evalVars => EvalInv'
  BY EvalStep
<1>2. EvalInv /\ [EvalNext]_evalVars => [OracleStaysHeldOut' /\ SolvedIsRight]_evalVars
  BY EvalStep DEF EvalInv
<1>3. QED
  BY <1>1, <1>2, EvalStart, PTL DEF EvalSpec, VerdictsAreFair
-----------------------------------------------------------------------------
(* The editor's extension.  What the user is told comes from an answer that   *)
(* was true when the server gave it; the invariant says that an answer stays  *)
(* true in the pipe, and that a task awaits one answer at a time, so that it  *)
(* takes each for what it asked.                                              *)

\* The methods that are asked of a run that was picked, and where a task may be.
OfARun == {"diffFiles", "approve", "reject", "resume", "checkpoints", "rollback", "pr"}
Methods == {"listRuns", "run"} \cup OfARun
Stages == Methods \cup {"idle", "pick", "pick checkpoint", "decide"}
TaskStates == [kind : Kinds \cup {"none"}, stage : Stages,
               run : RunIds \cup {NoRunId}, choices : SUBSET RunIds]
Responses == [task : Tasks, run : RunIds \cup {NoRunId}, ok : BOOLEAN, status : Statuses,
              version : 0..MaxVersion, conflict : BOOLEAN, choices : SUBSET RunIds]

EditorTypes ==
  /\ runs \in [RunIds -> RunRecords]
  /\ requests \in Seq(Tasks) /\ replies \in Seq(Responses)
  /\ serving \subseteq Tasks \X RunIds
  /\ tasks \in [Tasks -> TaskStates]
  /\ listeners \subseteq Tasks
  /\ views \in [RunIds -> 0..MaxVersion]

TaskInv ==
  \A t \in Tasks :
    /\ tasks[t].stage # "idle" => tasks[t].kind \in Kinds
    /\ tasks[t].stage \in OfARun \cup {"pick checkpoint", "decide"} => tasks[t].run \in RunIds

\* A task that awaits an answer has one request in the pipe, one loop it waits
\* for or one answer on the way, or none if the server died.
TasksOf(q) == {a.task : a \in Range(q)}
Asked == Range(requests)
Answered == TasksOf(replies)
Served == {s[1] : s \in serving}

Distinct(q) == \A i, j \in 1..Len(q) : q[i] = q[j] => i = j
OneEach(q) == \A i, j \in 1..Len(q) : q[i].task = q[j].task => i = j

AwaitInv ==
  /\ \A t \in Asked \cup Answered \cup Served : tasks[t].stage \in Methods
  /\ \A t \in Served : tasks[t].stage \in {"run", "resume"}
  /\ Distinct(requests) /\ OneEach(replies)
  /\ \A s, z \in serving : s[1] = z[1] => s = z
  /\ Asked \cap Answered = {} /\ Asked \cap Served = {} /\ Answered \cap Served = {}

\* A loop's run is running, and is no other loop's.
LoopInv ==
  /\ \A s \in serving : runs[s[2]].status = "RUNNING"
  /\ \A s, z \in serving : s[2] = z[2] => s = z

\* A conflict of a run that was never cut short is the one the answer tells.
TellsConflict(run, a) == run.conflict => a.conflict \/ run.cut

LandedInv == \A r \in RunIds : IsAccountedFor(runs[r])

\* What an answer to a method says of its run.
Fits(a, method) ==
  a.ok =>
    /\ method # "listRuns" => a.run \in RunIds
    /\ method = "approve" => runs[a.run].status = "DONE" /\ runs[a.run].landed
    /\ method = "reject" => runs[a.run].status = "CANCELLED"
    /\ method \in {"approve", "reject"} => TellsConflict(runs[a.run], a)
    /\ method = "diffFiles" => views[a.run] <= a.version /\ a.version <= runs[a.run].version

\* The diffs of a run are answered in the order of their versions.  T is what the
\* tasks are.
IsDiff(a, T) == a.ok /\ T[a.task].stage = "diffFiles"
NotNewer(a, b, T) ==
  IsDiff(a, T) /\ IsDiff(b, T) /\ a.run = b.run => a.version <= b.version
InOrder(q, T) == \A i, j \in 1..Len(q) : i < j => NotNewer(q[i], q[j], T)

ReplyInv ==
  /\ \A a \in Range(replies) : Fits(a, tasks[a.task].stage)
  /\ InOrder(replies, tasks)

\* The user was told of a run.
Told(what, r) == <<what, r>> \in notices
ToldOf(run, approved, rejected, warned) ==
  /\ approved => run.status = "DONE" /\ run.landed
  /\ rejected => run.status = "CANCELLED"
  /\ run.conflict /\ ~run.cut /\ (approved \/ rejected) => warned
NoticeInv ==
  \A r \in RunIds :
    /\ views[r] <= runs[r].version
    /\ ToldOf(runs[r], Told("approved", r), Told("rejected", r), Told("warning", r))

ListenInv ==
  \A t \in listeners : Listens(tasks[t].kind) /\ tasks[t].stage \notin {"listRuns", "pick", "idle"}

EditorInv ==
  /\ EditorTypes /\ TaskInv /\ AwaitInv /\ LoopInv /\ ReplyInv /\ NoticeInv /\ ListenInv
  /\ LandedInv

\* The places of a queue without its head, and with one more.
LEMMA TailPlaces ==
  ASSUME NEW S, NEW q \in Seq(S), q # <<>>
  PROVE  /\ Head(q) \in S /\ Head(q) = q[1] /\ Len(q) \in Nat \ {0}
         /\ Tail(q) \in Seq(S) /\ Len(Tail(q)) = Len(q) - 1
         /\ \A i \in 1..Len(Tail(q)) : i + 1 \in 1..Len(q) /\ Tail(q)[i] = q[i + 1]
         /\ \A k \in 1..Len(q) : k # 1 => k - 1 \in 1..Len(Tail(q)) /\ q[k] = Tail(q)[k - 1]
         /\ Range(q) = {Head(q)} \cup Range(Tail(q))
<1>1. /\ Head(q) \in S /\ Head(q) = q[1] /\ Len(q) \in Nat \ {0}
      /\ Tail(q) \in Seq(S) /\ Len(Tail(q)) = Len(q) - 1
      /\ \A i \in 1..Len(Tail(q)) : Tail(q)[i] = q[i + 1]
  OBVIOUS
<1>2. \A i \in 1..Len(Tail(q)) : i + 1 \in 1..Len(q)
  BY <1>1
<1>3. \A k \in 1..Len(q) : k # 1 => k - 1 \in 1..Len(Tail(q)) /\ (k - 1) + 1 = k
  BY <1>1
<1>4. \A k \in 1..Len(q) : k # 1 => q[k] = Tail(q)[k - 1]
  BY <1>1, <1>3
<1>5. DOMAIN q = 1..Len(q) /\ DOMAIN Tail(q) = 1..Len(Tail(q)) /\ 1 \in 1..Len(q)
  BY <1>1
<1>6. Range(Tail(q)) \subseteq Range(q)
  BY <1>1, <1>2, <1>5 DEF Range
<1>7. Range(q) \subseteq {Head(q)} \cup Range(Tail(q))
  <2>1. SUFFICES ASSUME NEW k \in 1..Len(q)
                 PROVE  q[k] = Head(q) \/ q[k] \in Range(Tail(q))
    BY <1>5 DEF Range
  <2>2. CASE k = 1
    BY <1>1, <2>2
  <2>3. CASE k # 1
    BY <1>3, <1>4, <1>5, <2>3 DEF Range
  <2>4. QED
    BY <2>2, <2>3
<1>8. Head(q) \in Range(q)
  BY <1>1, <1>5 DEF Range
<1>9. QED
  BY <1>1, <1>2, <1>3, <1>4, <1>6, <1>7, <1>8

LEMMA AppendPlaces ==
  ASSUME NEW S, NEW q \in Seq(S), NEW x \in S
  PROVE  /\ Len(q) \in Nat
         /\ Append(q, x) \in Seq(S) /\ Len(Append(q, x)) = Len(q) + 1
         /\ \A i \in 1..Len(q) : Append(q, x)[i] = q[i]
         /\ Append(q, x)[Len(q) + 1] = x
         /\ \A k \in 1..Len(Append(q, x)) : k = Len(q) + 1 \/ k \in 1..Len(q)
         /\ Range(Append(q, x)) = Range(q) \cup {x}
<1>1. /\ Len(q) \in Nat
      /\ Append(q, x) \in Seq(S) /\ Len(Append(q, x)) = Len(q) + 1
      /\ \A i \in 1..Len(q) : Append(q, x)[i] = q[i]
      /\ Append(q, x)[Len(q) + 1] = x
  OBVIOUS
<1>2. \A k \in 1..Len(Append(q, x)) : k = Len(q) + 1 \/ k \in 1..Len(q)
  BY <1>1
<1>3. /\ DOMAIN q = 1..Len(q) /\ DOMAIN Append(q, x) = 1..(Len(q) + 1)
      /\ 1..(Len(q) + 1) = 1..Len(q) \cup {Len(q) + 1}
  BY <1>1
<1>4. Range(Append(q, x)) = Range(q) \cup {x}
  BY <1>1, <1>3 DEF Range
<1>5. QED
  BY <1>1, <1>2, <1>4

\* What is in a queue is what may be in it.
LEMMA RangeOfQueue == ASSUME NEW S, NEW q \in Seq(S) PROVE Range(q) \subseteq S
  BY DEF Range

\* The oldest request is taken; one more is made.
LEMMA TakesRequest ==
  ASSUME NEW q \in Seq(Tasks), q # <<>>, Distinct(q)
  PROVE  /\ Tail(q) \in Seq(Tasks) /\ Distinct(Tail(q))
         /\ Range(Tail(q)) = Range(q) \ {Head(q)} /\ Head(q) \in Range(q)
<1>1. /\ Head(q) = q[1] /\ Len(q) \in Nat \ {0} /\ 1 \in 1..Len(q)
      /\ Tail(q) \in Seq(Tasks) /\ Len(Tail(q)) = Len(q) - 1
      /\ \A i \in 1..Len(Tail(q)) : i + 1 \in 1..Len(q) /\ Tail(q)[i] = q[i + 1]
      /\ Range(q) = {Head(q)} \cup Range(Tail(q))
  BY TailPlaces
<1>2. Distinct(Tail(q))
  <2>1. SUFFICES ASSUME NEW i \in 1..Len(Tail(q)), NEW j \in 1..Len(Tail(q)),
                        Tail(q)[i] = Tail(q)[j]
                 PROVE  i = j
    BY DEF Distinct
  <2>2. q[i + 1] = q[j + 1] /\ i + 1 \in 1..Len(q) /\ j + 1 \in 1..Len(q)
    BY <1>1, <2>1
  <2>3. i + 1 = j + 1
    BY <2>2 DEF Distinct
  <2>4. QED
    BY <2>3
<1>3. Head(q) \notin Range(Tail(q))
  <2>1. SUFFICES ASSUME NEW i \in 1..Len(Tail(q)), Tail(q)[i] = q[1] PROVE FALSE
    BY <1>1 DEF Range
  <2>2. q[i + 1] = q[1] /\ i + 1 \in 1..Len(q)
    BY <1>1, <2>1
  <2>3. i + 1 = 1
    BY <1>1, <2>2 DEF Distinct
  <2>4. QED
    BY <2>3
<1>4. QED
  BY <1>1, <1>2, <1>3

LEMMA MakesRequest ==
  ASSUME NEW q \in Seq(Tasks), NEW t \in Tasks, Distinct(q), t \notin Range(q)
  PROVE  /\ Append(q, t) \in Seq(Tasks) /\ Distinct(Append(q, t))
         /\ Range(Append(q, t)) = Range(q) \cup {t}
<1>1. /\ Len(q) \in Nat
      /\ Append(q, t) \in Seq(Tasks) /\ Len(Append(q, t)) = Len(q) + 1
      /\ \A i \in 1..Len(q) : Append(q, t)[i] = q[i]
      /\ Append(q, t)[Len(q) + 1] = t
      /\ \A k \in 1..Len(Append(q, t)) : k = Len(q) + 1 \/ k \in 1..Len(q)
      /\ Range(Append(q, t)) = Range(q) \cup {t}
  BY AppendPlaces
<1>2. \A i \in 1..Len(q) : q[i] # t
  BY DEF Range
<1>3. Distinct(Append(q, t))
  BY <1>1, <1>2 DEF Distinct
<1>4. QED
  BY <1>1, <1>3

\* The oldest answer is taken; one more is given.
LEMMA TakesOldest ==
  ASSUME NEW q \in Seq(Responses), q # <<>>, NEW T, OneEach(q), InOrder(q, T)
  PROVE  /\ Tail(q) \in Seq(Responses) /\ OneEach(Tail(q)) /\ InOrder(Tail(q), T)
         /\ Range(Tail(q)) \subseteq Range(q) /\ Head(q) \in Range(q)
         /\ Head(q).task \notin TasksOf(Tail(q))
         /\ \A a \in Range(Tail(q)) : NotNewer(Head(q), a, T)
<1>1. /\ Head(q) = q[1] /\ Len(q) \in Nat \ {0} /\ 1 \in 1..Len(q)
      /\ Tail(q) \in Seq(Responses) /\ Len(Tail(q)) = Len(q) - 1
      /\ \A i \in 1..Len(Tail(q)) : i + 1 \in 1..Len(q) /\ Tail(q)[i] = q[i + 1]
      /\ Range(q) = {Head(q)} \cup Range(Tail(q))
  BY TailPlaces
<1>2. OneEach(Tail(q))
  <2>1. SUFFICES ASSUME NEW i \in 1..Len(Tail(q)), NEW j \in 1..Len(Tail(q)),
                        Tail(q)[i].task = Tail(q)[j].task
                 PROVE  i = j
    BY DEF OneEach
  <2>2. q[i + 1].task = q[j + 1].task /\ i + 1 \in 1..Len(q) /\ j + 1 \in 1..Len(q)
    BY <1>1, <2>1
  <2>3. i + 1 = j + 1
    BY <2>2 DEF OneEach
  <2>4. QED
    BY <2>3
<1>3. InOrder(Tail(q), T)
  <2>1. SUFFICES ASSUME NEW i \in 1..Len(Tail(q)), NEW j \in 1..Len(Tail(q)), i < j
                 PROVE  NotNewer(Tail(q)[i], Tail(q)[j], T)
    BY DEF InOrder
  <2>2. /\ Tail(q)[i] = q[i + 1] /\ Tail(q)[j] = q[j + 1]
        /\ i + 1 \in 1..Len(q) /\ j + 1 \in 1..Len(q) /\ i + 1 < j + 1
    BY <1>1, <2>1
  <2>3. NotNewer(q[i + 1], q[j + 1], T)
    BY <2>2 DEF InOrder
  <2>4. QED
    BY <2>2, <2>3
<1>4. \A i \in 1..Len(Tail(q)) : NotNewer(q[1], Tail(q)[i], T) /\ Tail(q)[i].task # q[1].task
  <2>1. SUFFICES ASSUME NEW i \in 1..Len(Tail(q))
                 PROVE  NotNewer(q[1], q[i + 1], T) /\ q[i + 1].task # q[1].task
    BY <1>1
  <2>2. i + 1 \in 1..Len(q) /\ 1 < i + 1
    BY <1>1
  <2>3. NotNewer(q[1], q[i + 1], T)
    BY <1>1, <2>2 DEF InOrder
  <2>4. q[i + 1].task # q[1].task
    BY <1>1, <2>2 DEF OneEach
  <2>5. QED
    BY <2>3, <2>4
<1>5. \A a \in Range(Tail(q)) : NotNewer(q[1], a, T) /\ a.task # q[1].task
  <2>1. DOMAIN Tail(q) = 1..Len(Tail(q))
    BY <1>1
  <2>2. QED
    BY <1>4, <2>1 DEF Range
<1>6. QED
  BY <1>1, <1>2, <1>3, <1>5 DEF TasksOf

LEMMA GivesAnother ==
  ASSUME NEW q \in Seq(Responses), NEW a \in Responses, NEW T, OneEach(q), InOrder(q, T),
         a.task \notin TasksOf(q), \A b \in Range(q) : NotNewer(b, a, T)
  PROVE  /\ Append(q, a) \in Seq(Responses) /\ OneEach(Append(q, a)) /\ InOrder(Append(q, a), T)
         /\ Range(Append(q, a)) = Range(q) \cup {a}
<1>1. /\ Len(q) \in Nat
      /\ Append(q, a) \in Seq(Responses) /\ Len(Append(q, a)) = Len(q) + 1
      /\ \A i \in 1..Len(q) : Append(q, a)[i] = q[i]
      /\ Append(q, a)[Len(q) + 1] = a
      /\ \A k \in 1..Len(Append(q, a)) : k = Len(q) + 1 \/ k \in 1..Len(q)
      /\ Range(Append(q, a)) = Range(q) \cup {a}
  BY AppendPlaces
<1>2. \A i \in 1..Len(q) : q[i] \in Range(q)
  BY DEF Range
<1>3. \A i \in 1..Len(q) : q[i].task # a.task /\ NotNewer(q[i], a, T)
  BY <1>2 DEF TasksOf
<1>4. OneEach(Append(q, a))
  BY <1>1, <1>3 DEF OneEach
<1>5. InOrder(Append(q, a), T)
  <2>1. SUFFICES ASSUME NEW i \in 1..Len(Append(q, a)), NEW j \in 1..Len(Append(q, a)), i < j
                 PROVE  NotNewer(Append(q, a)[i], Append(q, a)[j], T)
    BY DEF InOrder
  <2>2. i \in 1..Len(q)
    BY <1>1, <2>1
  <2>3. CASE j = Len(q) + 1
    BY <1>1, <1>3, <2>2, <2>3
  <2>4. CASE j \in 1..Len(q)
    BY <1>1, <2>1, <2>2, <2>4 DEF InOrder
  <2>5. QED
    BY <1>1, <2>3, <2>4
<1>6. QED
  BY <1>1, <1>4, <1>5

LEMMA EditorStart == EditorInit => EditorInv
<1> SUFFICES ASSUME EditorInit PROVE EditorInv
  OBVIOUS
<1>1. NoTask \in TaskStates /\ NoTask.stage = "idle"
  BY DEF NoTask, TaskStates, Stages
<1>2. EditorTypes
  BY <1>1, EditorAssumption DEF EditorInit, EditorTypes, RunRecords
<1>3. \A r \in RunIds : views[r] <= runs[r].version
  BY EditorAssumption DEF EditorInit
<1>4. requests = <<>> /\ replies = <<>> /\ serving = {} /\ listeners = {} /\ notices = {}
      /\ Len(<<>>) = 0 /\ Range(<<>>) = {}
  BY DEF EditorInit, Range
<1>5. AwaitInv /\ LoopInv /\ ReplyInv
  BY <1>4 DEF AwaitInv, LoopInv, ReplyInv, Asked, Answered, Served, TasksOf, Distinct,
     OneEach, InOrder
<1>6. TaskInv
  BY <1>1 DEF EditorInit, TaskInv, OfARun
<1>7. NoticeInv /\ ListenInv
  BY <1>3, <1>4 DEF NoticeInv, Told, ToldOf, ListenInv
<1>8. LandedInv
  BY EditorAssumption DEF EditorInit, LandedInv
<1>9. QED
  BY <1>2, <1>5, <1>6, <1>7, <1>8 DEF EditorInv

\* What becomes of the answers, the shown diffs and the notices when a task takes
\* an answer or nothing: those that are left are still in order and still true.
AnswersMove(t) ==
  /\ replies' \in Seq(Responses) /\ OneEach(replies') /\ InOrder(replies', tasks)
  /\ Range(replies') \subseteq Range(replies) /\ t \notin TasksOf(replies')
DiffsMove ==
  /\ views' \in [RunIds -> 0..MaxVersion]
  /\ \A r \in RunIds : views'[r] <= runs[r].version
  /\ \A a \in Range(replies') : IsDiff(a, tasks) => views'[a.run] <= a.version
NoticesMove ==
  \A r \in RunIds :
    ToldOf(runs[r], Told("approved", r)', Told("rejected", r)', Told("warning", r)')
RequestsMove(t, method) ==
  \/ requests' = requests
  \/ requests' = Append(requests, t) /\ method \in Methods
ListenersMove(t, to) ==
  /\ listeners' \subseteq listeners \cup {t}
  /\ t \in listeners' => Listens(to.kind) /\ to.stage \notin {"listRuns", "pick", "idle"}
IsWhole(to) ==
  /\ to \in TaskStates
  /\ to.stage # "idle" => to.kind \in Kinds
  /\ to.stage \in OfARun \cup {"pick checkpoint", "decide"} => to.run \in RunIds

\* One task goes on: it awaited nothing, or has just been given its answer.
LEMMA TaskMoves ==
  ASSUME EditorInv, NEW t \in Tasks, NEW to, IsWhole(to),
         UNCHANGED <<runs, serving>>, tasks' = [tasks EXCEPT ![t] = to],
         t \notin Asked \cup Served, AnswersMove(t), DiffsMove, NoticesMove,
         RequestsMove(t, to.stage), ListenersMove(t, to)
  PROVE  EditorInv'
<1>1. /\ tasks' \in [Tasks -> TaskStates] /\ tasks'[t] = to
      /\ \A u \in Tasks \ {t} : tasks'[u] = tasks[u]
  BY DEF EditorInv, EditorTypes, IsWhole
<1>2. /\ requests' \in Seq(Tasks) /\ Distinct(requests') /\ Range(requests') \subseteq Asked \cup {t}
      /\ t \in Range(requests') => to.stage \in Methods
  <2>1. requests \in Seq(Tasks) /\ Distinct(requests) /\ t \notin Range(requests)
    BY DEF EditorInv, EditorTypes, AwaitInv, Asked
  <2>2. CASE requests' = requests
    BY <2>1, <2>2 DEF Asked
  <2>3. CASE requests' = Append(requests, t) /\ to.stage \in Methods
    BY <2>1, <2>3, MakesRequest DEF Asked
  <2>4. QED
    BY <2>2, <2>3 DEF RequestsMove
<1>3. EditorTypes'
  BY <1>1, <1>2 DEF EditorInv, EditorTypes, AnswersMove, DiffsMove, ListenersMove
<1>4. TaskInv'
  BY <1>1 DEF EditorInv, TaskInv, IsWhole
<1>5. AwaitInv'
  <2>1. Served' = Served /\ Asked' = Range(requests') /\ Answered' = TasksOf(replies')
    BY DEF Served, Asked, Answered
  <2>2. Answered' \subseteq Answered /\ t \notin Answered'
    BY <2>1 DEF AnswersMove, Answered, TasksOf
  <2>3. Range(requests') \subseteq Tasks /\ Range(replies) \subseteq Responses
        /\ serving \subseteq Tasks \X RunIds
    BY <1>2, RangeOfQueue DEF EditorInv, EditorTypes
  <2>4. Answered \subseteq Tasks /\ Served \subseteq Tasks
    BY <2>3 DEF Answered, TasksOf, Served, Responses
  <2>5. \A u \in (Asked' \cup Answered' \cup Served') \ {t} :
          u \in Tasks \ {t} /\ u \in Asked \cup Answered \cup Served
    BY <1>2, <2>1, <2>2, <2>3, <2>4
  <2>6. \A u \in Asked' \cup Answered' \cup Served' : tasks'[u].stage \in Methods
    <3>1. ASSUME NEW u \in Asked' \cup Answered' \cup Served' PROVE tasks'[u].stage \in Methods
      <4>1. CASE u = t
        BY <1>1, <1>2, <2>1, <2>2, <3>1, <4>1
      <4>2. CASE u # t
        BY <1>1, <2>5, <3>1, <4>2 DEF EditorInv, AwaitInv
      <4>3. QED
        BY <4>1, <4>2
    <3>2. QED
      BY <3>1
  <2>7. \A u \in Served' : tasks'[u].stage \in {"run", "resume"}
    BY <1>1, <2>1, <2>4 DEF EditorInv, AwaitInv
  <2>8. Asked' \cap Answered' = {} /\ Asked' \cap Served' = {} /\ Answered' \cap Served' = {}
    BY <1>2, <2>1, <2>2 DEF EditorInv, AwaitInv
  <2>9. OneEach(replies') /\ \A s, z \in serving' : s[1] = z[1] => s = z
    BY DEF AnswersMove, EditorInv, AwaitInv
  <2>10. QED
    BY <1>2, <2>6, <2>7, <2>8, <2>9 DEF AwaitInv
<1>6. LoopInv'
  BY DEF EditorInv, LoopInv
<1>7. ReplyInv'
  <2>1. \A a \in Range(replies') : a.task \in Tasks \ {t} /\ a \in Range(replies)
    <3>1. Range(replies') \subseteq Responses
      BY RangeOfQueue DEF AnswersMove
    <3>2. \A a \in Responses : a.task \in Tasks
      BY DEF Responses
    <3>3. QED
      BY <3>1, <3>2 DEF AnswersMove, TasksOf
  <2>2. \A a \in Range(replies') : tasks'[a.task] = tasks[a.task]
    BY <1>1, <2>1
  <2>3. \A a \in Range(replies') : Fits(a, tasks[a.task].stage)'
    BY <2>1, <2>2 DEF EditorInv, ReplyInv, Fits, DiffsMove, IsDiff
  <2>4. InOrder(replies', tasks')
    <3>1. \A i \in 1..Len(replies') : tasks'[replies'[i].task] = tasks[replies'[i].task]
      BY <1>3, <2>2 DEF EditorTypes, Range
    <3>2. QED
      BY <3>1 DEF AnswersMove, InOrder, NotNewer, IsDiff
  <2>5. QED
    BY <2>3, <2>4 DEF ReplyInv
<1>8. NoticeInv'
  BY DEF NoticeInv, NoticesMove, DiffsMove, Told
<1>9. ListenInv' /\ LandedInv'
  BY <1>1 DEF EditorInv, ListenInv, EditorTypes, ListenersMove, LandedInv
<1>10. QED
  BY <1>3, <1>4, <1>5, <1>6, <1>7, <1>8, <1>9 DEF EditorInv

\* A task that shows a prompt, or nothing, awaits no answer.
LEMMA AwaitsNothing ==
  ASSUME EditorInv, NEW t \in Tasks, tasks[t].stage \notin Methods,
         UNCHANGED <<runs, replies, views, notices>>
  PROVE  t \notin Asked \cup Served /\ AnswersMove(t) /\ DiffsMove /\ NoticesMove
<1>1. t \notin Asked \cup Answered \cup Served
  BY DEF EditorInv, AwaitInv
<1>2. AnswersMove(t)
  BY <1>1 DEF EditorInv, EditorTypes, AwaitInv, ReplyInv, AnswersMove, Answered
<1>3. \A a \in Range(replies) : IsDiff(a, tasks) => views[a.run] <= a.version
  BY DEF EditorInv, ReplyInv, Fits, IsDiff
<1>4. DiffsMove
  BY <1>3 DEF EditorInv, EditorTypes, NoticeInv, DiffsMove
<1>5. NoticesMove
  BY DEF EditorInv, NoticeInv, NoticesMove, Told
<1>6. QED
  BY <1>1, <1>2, <1>4, <1>5

\* A task sends its next request, or shows a prompt, or is over.
LEMMA SendsFacts ==
  ASSUME NEW t, NEW task, NEW method, method \in Methods, Sends(t, task, method),
         task \in TaskStates
  PROVE  /\ tasks' = [tasks EXCEPT ![t] = [task EXCEPT !.stage = method]]
         /\ RequestsMove(t, [task EXCEPT !.stage = method].stage)
         /\ [task EXCEPT !.stage = method] \in TaskStates
         /\ [task EXCEPT !.stage = method].stage = method
         /\ [task EXCEPT !.stage = method].run = task.run
         /\ [task EXCEPT !.stage = method].kind = task.kind
<1>1. /\ [task EXCEPT !.stage = method] \in TaskStates
      /\ [task EXCEPT !.stage = method].stage = method
      /\ [task EXCEPT !.stage = method].run = task.run
      /\ [task EXCEPT !.stage = method].kind = task.kind
  BY DEF TaskStates, Stages
<1>2. QED
  BY <1>1 DEF Sends, RequestsMove

LEMMA IsOverFacts ==
  ASSUME NEW t \in Tasks, NEW told, IsOver(t, told)
  PROVE  /\ tasks' = [tasks EXCEPT ![t] = NoTask] /\ IsWhole(NoTask)
         /\ NoTask.stage = "idle" /\ RequestsMove(t, NoTask.stage) /\ ListenersMove(t, NoTask)
         /\ notices' = notices \cup told
<1>1. IsWhole(NoTask) /\ NoTask.stage = "idle"
  BY DEF IsWhole, NoTask, TaskStates, Stages, OfARun
<1>2. QED
  BY <1>1 DEF IsOver, RequestsMove, ListenersMove

LEMMA IsOverStep ==
  ASSUME EditorInv, NEW t \in Tasks, tasks[t].stage \notin Methods, IsOver(t, {}),
         UNCHANGED <<runs, serving, replies, views>>
  PROVE  EditorInv'
<1>1. notices' = notices
  BY IsOverFacts
<1>2. QED
  BY <1>1, AwaitsNothing, IsOverFacts, TaskMoves

LEMMA SendsStep ==
  ASSUME EditorInv, NEW t \in Tasks, tasks[t].stage \notin Methods,
         NEW task \in TaskStates, NEW method \in Methods, Sends(t, task, method),
         task.kind \in Kinds, method \in OfARun => task.run \in RunIds,
         UNCHANGED <<runs, serving, replies, views, notices>>,
         listeners' \subseteq listeners \cup {t},
         t \in listeners' => Listens(task.kind) /\ method # "listRuns"
  PROVE  EditorInv'
<1> DEFINE to == [task EXCEPT !.stage = method]
<1>1. /\ tasks' = [tasks EXCEPT ![t] = to] /\ RequestsMove(t, to.stage)
      /\ to \in TaskStates /\ to.stage = method /\ to.run = task.run /\ to.kind = task.kind
  BY SendsFacts
<1> HIDE DEF to
<1>2. IsWhole(to)
  BY <1>1 DEF IsWhole, Methods, OfARun
<1>3. ListenersMove(t, to)
  BY <1>1 DEF ListenersMove, Methods, OfARun
<1>4. QED
  BY <1>1, <1>2, <1>3, AwaitsNothing, TaskMoves

\* A command starts, and the user picks a run, a checkpoint or a decision.
LEMMA CommandStep ==
  ASSUME EditorInv, NEW t \in Tasks, NEW kind \in Kinds, Command(t, kind)
  PROVE  EditorInv'
<1> DEFINE task == [NoTask EXCEPT !.kind = kind]
           method == IF kind = "run" THEN "run" ELSE "listRuns"
<1>1. /\ task \in TaskStates /\ task.kind = kind
      /\ tasks[t].stage \notin Methods /\ method \in Methods \ OfARun
  <2>1. NoTask \in TaskStates /\ NoTask.stage = "idle" /\ tasks[t] = NoTask
    BY DEF Command, NoTask, TaskStates, Stages
  <2>2. task \in TaskStates /\ task.kind = kind
    BY <2>1 DEF TaskStates
  <2>3. "idle" \notin Methods /\ method \in Methods \ OfARun
    BY DEF Methods, OfARun
  <2>4. QED
    BY <2>1, <2>2, <2>3
<1>2. /\ Sends(t, task, method) /\ UNCHANGED <<runs, serving, replies, views, notices>>
      /\ listeners' = IF kind = "run" THEN listeners \cup {t} ELSE listeners
  BY DEF Command, servedVars
<1>3. t \notin listeners
  BY DEF Command, NoTask, EditorInv, ListenInv
<1>4. t \in listeners' => Listens(task.kind) /\ method # "listRuns"
  BY <1>1, <1>2, <1>3 DEF Listens
<1> HIDE DEF task, method
<1>5. task.kind \in Kinds /\ listeners' \subseteq listeners \cup {t}
  BY <1>1, <1>2
<1>6. QED
  BY <1>1, <1>2, <1>4, <1>5, SendsStep

LEMMA PickStep ==
  ASSUME EditorInv, NEW t \in Tasks, PickRun(t) \/ PickCheckpoint(t) \/ AskApproveOrReject(t)
  PROVE  EditorInv'
<1>1. /\ tasks[t].stage \in {"pick", "pick checkpoint", "decide"} /\ tasks[t] \in TaskStates
      /\ tasks[t].stage \notin Methods /\ tasks[t].kind \in Kinds
      /\ UNCHANGED <<runs, serving, replies, views>>
  BY DEF PickRun, PickCheckpoint, AskApproveOrReject, servedVars, EditorInv, EditorTypes,
     TaskInv, Methods, OfARun
<1>2. CASE IsOver(t, {})
  BY <1>1, <1>2, IsOverStep
<1>3. CASE \E r \in tasks[t].choices :
             /\ Sends(t, [tasks[t] EXCEPT !.run = r], MethodOf(tasks[t].kind))
             /\ listeners' = IF Listens(tasks[t].kind) THEN listeners \cup {t} ELSE listeners
             /\ tasks[t].stage = "pick" /\ UNCHANGED notices
  <2>1. PICK r \in tasks[t].choices :
          /\ Sends(t, [tasks[t] EXCEPT !.run = r], MethodOf(tasks[t].kind))
          /\ listeners' = IF Listens(tasks[t].kind) THEN listeners \cup {t} ELSE listeners
          /\ tasks[t].stage = "pick" /\ UNCHANGED notices
    BY <1>3
  <2> DEFINE task == [tasks[t] EXCEPT !.run = r]
             method == MethodOf(tasks[t].kind)
  <2>2. task \in TaskStates /\ task.kind = tasks[t].kind /\ task.run = r /\ r \in RunIds
    BY <1>1 DEF TaskStates
  <2>3. method \in Methods \ {"listRuns"}
    BY <1>1 DEF MethodOf, Kinds, Methods, OfARun
  <2>4. t \notin listeners
    BY <2>1 DEF EditorInv, ListenInv
  <2>5. t \in listeners' => Listens(tasks[t].kind)
    BY <2>1, <2>4
  <2>6. Sends(t, task, method) /\ listeners' \subseteq listeners \cup {t}
    BY <2>1
  <2> HIDE DEF task, method
  <2>7. QED
    BY <1>1, <2>1, <2>2, <2>3, <2>5, <2>6, SendsStep
<1>4. ASSUME NEW method \in {"rollback", "approve", "reject"}, Sends(t, tasks[t], method),
             tasks[t].stage \in {"pick checkpoint", "decide"},
             UNCHANGED <<listeners, notices>>
      PROVE  EditorInv'
  <2>1. tasks[t].run \in RunIds /\ (t \in listeners => Listens(tasks[t].kind))
    BY <1>4 DEF EditorInv, TaskInv, ListenInv
  <2>2. method \in Methods /\ method # "listRuns"
    BY <1>4 DEF Methods, OfARun
  <2>3. QED
    BY <1>1, <1>4, <2>1, <2>2, SendsStep
<1>5. QED
  BY <1>2, <1>3, <1>4 DEF PickRun, PickCheckpoint, AskApproveOrReject

\* What the oldest answer is, and what is left when it is taken.
LEMMA OldestAnswer ==
  ASSUME EditorInv, replies # <<>>, replies' = Tail(replies), UNCHANGED <<runs, serving>>
  PROVE  LET a == Head(replies)
             t == a.task IN
         /\ a \in Responses /\ t \in Tasks /\ tasks[t] \in TaskStates
         /\ tasks[t].stage \in Methods /\ tasks[t].kind \in Kinds
         /\ Fits(a, tasks[t].stage) /\ t \notin Asked \cup Served /\ AnswersMove(t)
         /\ \A b \in Range(replies') : NotNewer(a, b, tasks)
         /\ Range(replies') \subseteq Range(replies)
<1> DEFINE a == Head(replies)
           t == a.task
<1>1. /\ replies \in Seq(Responses) /\ OneEach(replies) /\ InOrder(replies, tasks)
      /\ tasks \in [Tasks -> TaskStates]
  BY DEF EditorInv, EditorTypes, AwaitInv, ReplyInv
<1>2. /\ replies' \in Seq(Responses) /\ OneEach(replies') /\ InOrder(replies', tasks)
      /\ Range(replies') \subseteq Range(replies) /\ a \in Range(replies)
      /\ t \notin TasksOf(replies')
      /\ \A b \in Range(replies') : NotNewer(a, b, tasks)
  BY <1>1, TakesOldest
<1>3. a \in Responses
  BY <1>1, <1>2, RangeOfQueue
<1>4. t \in Tasks /\ t \in Answered
  BY <1>2, <1>3 DEF Responses, Answered, TasksOf
<1>5. /\ tasks[t].stage \in Methods /\ t \notin Asked \cup Served
      /\ Fits(a, tasks[t].stage)
  BY <1>2, <1>4 DEF EditorInv, AwaitInv, ReplyInv
<1>6. tasks[t].kind \in Kinds
  BY <1>4, <1>5 DEF EditorInv, TaskInv, Methods, OfARun
<1>7. AnswersMove(t)
  BY <1>2 DEF AnswersMove
<1>8. QED
  BY <1>1, <1>2, <1>3, <1>4, <1>5, <1>6, <1>7

\* The diff that is shown is no older than the one before, and no newer than those
\* still to come.
LEMMA ShowsStep ==
  ASSUME EditorInv, UNCHANGED runs, NEW a \in Responses, a \in Range(replies),
         Range(replies') \subseteq Range(replies),
         \A b \in Range(replies') : NotNewer(a, b, tasks),
         views' = IF IsDiff(a, tasks) THEN ShowDiff(a) ELSE views
  PROVE  DiffsMove
<1>0. /\ views \in [RunIds -> 0..MaxVersion] /\ \A r \in RunIds : views[r] <= runs[r].version
      /\ \A b \in Range(replies) : IsDiff(b, tasks) =>
           /\ b.run \in RunIds /\ views[b.run] <= b.version /\ b.version <= runs[b.run].version
  BY DEF EditorInv, EditorTypes, NoticeInv, ReplyInv, Fits, IsDiff
<1>1. CASE ~IsDiff(a, tasks)
  BY <1>0, <1>1 DEF DiffsMove
<1>2. CASE IsDiff(a, tasks)
  <2>1. a.run \in RunIds /\ a.version <= runs[a.run].version /\ a.version \in 0..MaxVersion
    BY <1>0, <1>2 DEF Responses
  <2>2. /\ views' \in [RunIds -> 0..MaxVersion] /\ views'[a.run] = a.version
        /\ \A r \in RunIds \ {a.run} : views'[r] = views[r]
    BY <1>0, <1>2, <2>1 DEF ShowDiff
  <2>3. \A r \in RunIds : views'[r] <= runs[r].version
    BY <1>0, <2>1, <2>2
  <2>4. ASSUME NEW b \in Range(replies'), IsDiff(b, tasks) PROVE views'[b.run] <= b.version
    <3>1. CASE b.run = a.run
      BY <1>2, <2>2, <2>4, <3>1 DEF NotNewer
    <3>2. CASE b.run # a.run
      BY <1>0, <2>2, <2>4, <3>2
    <3>3. QED
      BY <3>1, <3>2
  <2>5. QED
    BY <2>2, <2>3, <2>4 DEF DiffsMove
<1>3. QED
  BY <1>1, <1>2

\* What the user is told of a run that was landed or discarded is so.
LEMMA TellsStep ==
  ASSUME EditorInv, NEW a \in Responses, a.ok, NEW method, Fits(a, method), UNCHANGED runs,
         \/ notices' = notices
         \/ method = "approve" /\ notices' = notices \cup Notices("approved", a)
         \/ method = "reject" /\ notices' = notices \cup Notices("rejected", a)
  PROVE  NoticesMove
<1>1. SUFFICES ASSUME NEW r \in RunIds
               PROVE  ToldOf(runs[r], Told("approved", r)', Told("rejected", r)', Told("warning", r)')
  BY DEF NoticesMove
<1>2. ToldOf(runs[r], Told("approved", r), Told("rejected", r), Told("warning", r))
  BY DEF EditorInv, NoticeInv
<1>3. CASE notices' = notices
  BY <1>2, <1>3 DEF Told
<1>4. CASE method = "approve" /\ notices' = notices \cup Notices("approved", a)
  <2>1. /\ runs[a.run].status = "DONE" /\ runs[a.run].landed
        /\ runs[a.run].conflict => a.conflict \/ runs[a.run].cut
    BY <1>4 DEF Fits, TellsConflict
  <2>2. /\ Told("approved", r)' <=> Told("approved", r) \/ r = a.run
        /\ Told("rejected", r)' <=> Told("rejected", r)
        /\ Told("warning", r)' <=> Told("warning", r) \/ (r = a.run /\ a.conflict)
    BY <1>4 DEF Told, Notices
  <2>3. QED
    BY <1>2, <2>1, <2>2 DEF ToldOf
<1>5. CASE method = "reject" /\ notices' = notices \cup Notices("rejected", a)
  <2>1. /\ runs[a.run].status = "CANCELLED"
        /\ runs[a.run].conflict => a.conflict \/ runs[a.run].cut
    BY <1>5 DEF Fits, TellsConflict
  <2>2. /\ Told("rejected", r)' <=> Told("rejected", r) \/ r = a.run
        /\ Told("approved", r)' <=> Told("approved", r)
        /\ Told("warning", r)' <=> Told("warning", r) \/ (r = a.run /\ a.conflict)
    BY <1>5 DEF Told, Notices
  <2>3. QED
    BY <1>2, <2>1, <2>2 DEF ToldOf
<1>6. QED
  BY <1>3, <1>4, <1>5

\* A task takes its answer, and is over, asks on, or shows a prompt.
LEMMA DeliverStep == EditorInv /\ Deliver => EditorInv'
<1> SUFFICES ASSUME EditorInv, Deliver PROVE EditorInv'
  OBVIOUS
<1>0. PICK a, t : a = Head(replies) /\ t = a.task
  OBVIOUS
<1>1. /\ replies # <<>> /\ replies' = Tail(replies) /\ TakesAnswer(t, a)
      /\ UNCHANGED <<runs, serving>>
  BY <1>0 DEF Deliver, servedVars
<1>2. /\ a \in Responses /\ t \in Tasks /\ tasks[t] \in TaskStates
      /\ tasks[t].stage \in Methods /\ tasks[t].kind \in Kinds
      /\ Fits(a, tasks[t].stage) /\ t \notin Asked \cup Served /\ AnswersMove(t)
      /\ \A b \in Range(replies') : NotNewer(a, b, tasks)
      /\ Range(replies') \subseteq Range(replies) /\ a \in Range(replies)
  <2>1. replies \in Seq(Responses)
    BY DEF EditorInv, EditorTypes
  <2>2. a \in Range(replies)
    BY <1>0, <1>1, <2>1, TailPlaces
  <2>3. QED
    BY <1>0, <1>1, <2>2, OldestAnswer
<1>3. DiffsMove
  <2>1. views' = IF IsDiff(a, tasks) THEN ShowDiff(a) ELSE views
    BY <1>0, <1>1 DEF TakesAnswer, IsDiff
  <2>2. QED
    BY <1>1, <1>2, <2>1, ShowsStep
<1> DEFINE task == [tasks[t] EXCEPT !.run = a.run]
<1>4. task \in TaskStates /\ task.kind = tasks[t].kind /\ task.run = a.run
      /\ task.choices = tasks[t].choices
  BY <1>2 DEF TaskStates, Responses
<1>5. ASSUME NEW told, IsOver(t, told), NoticesMove PROVE EditorInv'
  BY <1>1, <1>2, <1>3, <1>5, IsOverFacts, TaskMoves
<1>6. ASSUME IsOver(t, {}) PROVE EditorInv'
  <2>1. notices' = notices
    BY <1>6 DEF IsOver
  <2>2. NoticesMove
    BY <1>1, <2>1 DEF EditorInv, NoticeInv, NoticesMove, Told
  <2>3. QED
    BY <1>5, <1>6, <2>2
<1>7. ASSUME NEW to, IsWhole(to), tasks' = [tasks EXCEPT ![t] = to], to.kind = tasks[t].kind,
             to.stage \in {"pick", "pick checkpoint", "decide", "diffFiles"},
             to.stage = "pick" => tasks[t].stage = "listRuns",
             RequestsMove(t, to.stage), UNCHANGED <<listeners, notices>>
      PROVE  EditorInv'
  <2>1. t \in listeners => Listens(tasks[t].kind) /\ tasks[t].stage # "listRuns"
    BY DEF EditorInv, ListenInv
  <2>2. ListenersMove(t, to)
    BY <1>7, <2>1 DEF ListenersMove
  <2>3. NoticesMove
    BY <1>1, <1>7 DEF EditorInv, NoticeInv, NoticesMove, Told
  <2>4. QED
    BY <1>1, <1>2, <1>3, <1>7, <2>2, <2>3, TaskMoves
<1>8. ASSUME a.ok, NEW what \in {"pick", "pick checkpoint", "decide"}, NEW chosen \in SUBSET RunIds,
             Prompts(t, [task EXCEPT !.choices = chosen], what),
             (what = "pick") <=> (tasks[t].stage = "listRuns")
      PROVE  EditorInv'
  <2> DEFINE to == [[task EXCEPT !.choices = chosen] EXCEPT !.stage = what]
  <2>1. /\ to \in TaskStates /\ to.stage = what /\ to.kind = tasks[t].kind /\ to.run = a.run
    BY <1>4, <1>8 DEF TaskStates, Stages
  <2>2. /\ tasks' = [tasks EXCEPT ![t] = to] /\ UNCHANGED <<requests, listeners, notices>>
    BY <1>8 DEF Prompts
  <2> HIDE DEF to
  <2>3. IsWhole(to)
    BY <1>2, <1>8, <2>1 DEF IsWhole, Fits, OfARun
  <2>4. RequestsMove(t, to.stage)
    BY <2>2 DEF RequestsMove
  <2>5. QED
    BY <1>7, <1>8, <2>1, <2>2, <2>3, <2>4
<1>9. ASSUME a.ok, tasks[t].stage \in {"run", "resume"}, Sends(t, task, "diffFiles"),
             UNCHANGED <<listeners, notices>>
      PROVE  EditorInv'
  <2> HIDE DEF task
  <2> DEFINE to == [task EXCEPT !.stage = "diffFiles"]
  <2>1. "diffFiles" \in Methods
    BY DEF Methods, OfARun
  <2>2. /\ tasks' = [tasks EXCEPT ![t] = to] /\ RequestsMove(t, to.stage)
        /\ to \in TaskStates /\ to.stage = "diffFiles" /\ to.run = task.run
        /\ to.kind = task.kind
    BY <1>4, <1>9, <2>1, SendsFacts
  <2> HIDE DEF to
  <2>3. IsWhole(to)
    BY <1>2, <1>4, <1>9, <2>2 DEF IsWhole, Fits
  <2>4. QED
    BY <1>4, <1>7, <1>9, <2>2, <2>3
<1>10. CASE ~a.ok
  BY <1>1, <1>6, <1>10 DEF TakesAnswer
<1>11. CASE a.ok
  <2>0. [task EXCEPT !.choices = tasks[t].choices] = task /\ tasks[t].choices \in SUBSET RunIds
        /\ a.choices \in SUBSET RunIds
    BY <1>2, <1>4 DEF TaskStates, Responses
  <2>1. CASE tasks[t].stage = "listRuns"
    <3>1. IsOver(t, {}) \/ Prompts(t, [task EXCEPT !.choices = a.choices], "pick")
      BY <1>1, <1>11, <2>1 DEF TakesAnswer
    <3>2. QED
      BY <1>6, <1>8, <1>11, <2>0, <2>1, <3>1
  <2>2. CASE tasks[t].stage \in {"run", "resume"}
    <3>1. \/ IsOver(t, {})
          \/ Sends(t, task, "diffFiles") /\ UNCHANGED <<listeners, notices>>
      BY <1>1, <1>11, <2>2 DEF TakesAnswer
    <3>2. QED
      BY <1>6, <1>9, <1>11, <2>2, <3>1
  <2>3. CASE tasks[t].stage = "diffFiles"
    <3>1. IsOver(t, {}) \/ Prompts(t, task, "decide")
      BY <1>1, <1>11, <2>3 DEF TakesAnswer
    <3>2. QED
      BY <1>6, <1>8, <1>11, <2>0, <2>3, <3>1
  <2>4. CASE tasks[t].stage = "checkpoints"
    <3>1. IsOver(t, {}) \/ Prompts(t, task, "pick checkpoint")
      BY <1>1, <1>11, <2>4 DEF TakesAnswer
    <3>2. QED
      BY <1>6, <1>8, <1>11, <2>0, <2>4, <3>1
  <2>5. CASE tasks[t].stage = "approve"
    <3>1. IsOver(t, Notices("approved", a))
      BY <1>1, <1>11, <2>5 DEF TakesAnswer
    <3>2. NoticesMove
      BY <1>1, <1>2, <1>11, <2>5, <3>1, TellsStep DEF IsOver
    <3>3. QED
      BY <1>5, <3>1, <3>2
  <2>6. CASE tasks[t].stage = "reject"
    <3>1. IsOver(t, Notices("rejected", a))
      BY <1>1, <1>11, <2>6 DEF TakesAnswer
    <3>2. NoticesMove
      BY <1>1, <1>2, <1>11, <2>6, <3>1, TellsStep DEF IsOver
    <3>3. QED
      BY <1>5, <3>1, <3>2
  <2>7. CASE tasks[t].stage \in {"rollback", "pr"}
    <3>1. IsOver(t, {})
      BY <1>1, <1>11, <2>7 DEF TakesAnswer
    <3>2. QED
      BY <1>6, <3>1
  <2>8. QED
    BY <1>2, <2>1, <2>2, <2>3, <2>4, <2>5, <2>6, <2>7 DEF Methods, OfARun
<1>12. QED
  BY <1>10, <1>11

\* What the runs may become: a version never goes back, and what was landed or
\* discarded stays so.
RunsGrow ==
  /\ runs' \in [RunIds -> RunRecords] /\ LandedInv'
  /\ \A r \in RunIds :
       /\ runs[r].version <= runs'[r].version
       /\ runs[r].status \in {"DONE", "CANCELLED"} =>
            /\ runs'[r].status = runs[r].status /\ runs'[r].conflict = runs[r].conflict
            /\ runs'[r].landed = runs[r].landed /\ runs'[r].cut = runs[r].cut

\* What was true of the notices stays true.
LEMMA GrowingNotices ==
  ASSUME EditorInv, RunsGrow, UNCHANGED <<notices, views>>
  PROVE  NoticeInv'
<1>1. \A r \in RunIds : /\ runs[r].version \in Nat /\ runs'[r].version \in Nat
                        /\ views[r] \in Nat
  BY EditorAssumption DEF EditorInv, EditorTypes, RunsGrow, RunRecords
<1>2. SUFFICES ASSUME NEW r \in RunIds
               PROVE  /\ views[r] <= runs'[r].version
                      /\ ToldOf(runs'[r], Told("approved", r), Told("rejected", r), Told("warning", r))
  BY DEF NoticeInv, Told
<1>3. /\ views[r] <= runs[r].version
      /\ ToldOf(runs[r], Told("approved", r), Told("rejected", r), Told("warning", r))
  BY DEF EditorInv, NoticeInv
<1>4. views[r] <= runs'[r].version
  BY <1>1, <1>3 DEF RunsGrow
<1>5. Told("approved", r) \/ Told("rejected", r) =>
        /\ runs'[r].status = runs[r].status /\ runs'[r].conflict = runs[r].conflict
        /\ runs'[r].landed = runs[r].landed /\ runs'[r].cut = runs[r].cut
  BY <1>3 DEF RunsGrow, ToldOf
<1> QED
  BY <1>3, <1>4, <1>5 DEF ToldOf

\* What was true of the answers and the notices stays true.
LEMMA GrowingKeeps ==
  ASSUME EditorInv, RunsGrow, UNCHANGED <<tasks, listeners, notices, views>>
  PROVE  /\ \A a \in Range(replies) : Fits(a, tasks[a.task].stage)'
         /\ NoticeInv' /\ TaskInv' /\ ListenInv' /\ LandedInv'
<1>1. \A r \in RunIds : /\ runs[r].version \in Nat /\ runs'[r].version \in Nat
                        /\ views[r] \in Nat
  BY EditorAssumption DEF EditorInv, EditorTypes, RunsGrow, RunRecords
<1>2. ASSUME NEW a \in Range(replies) PROVE Fits(a, tasks[a.task].stage)'
  <2>1. Fits(a, tasks[a.task].stage) /\ a \in Responses
    BY RangeOfQueue DEF EditorInv, EditorTypes, ReplyInv
  <2>2. a.version \in Nat
    BY <2>1, EditorAssumption DEF Responses
  <2>3. QED
    BY <1>1, <2>1, <2>2 DEF Fits, RunsGrow, TellsConflict
<1>3. NoticeInv'
  BY GrowingNotices
<1>4. TaskInv' /\ ListenInv' /\ LandedInv'
  BY DEF EditorInv, TaskInv, ListenInv, RunsGrow
<1>5. QED
  BY <1>2, <1>3, <1>4

\* The server answers the oldest request, or the task whose loop has ended.
LEMMA AnswerStep ==
  ASSUME EditorInv, RunsGrow, UNCHANGED <<tasks, listeners, notices, views>>,
         NEW a \in Responses, replies' = Append(replies, a), Fits(a, tasks[a.task].stage)',
         IsDiff(a, tasks) => a.version = runs[a.run].version,
         LoopInv', serving' \subseteq serving,
         \/ requests # <<>> /\ a.task = Head(requests) /\ requests' = Tail(requests)
         \/ a.task \in Served /\ a.task \notin Served' /\ requests' = requests
  PROVE  EditorInv'
<1>1. a.task \in Tasks /\ a.task \in Asked \cup Served
  <2>1. requests # <<>> => Head(requests) \in Asked
    BY TakesRequest DEF EditorInv, EditorTypes, AwaitInv, Asked
  <2>2. a.task \in Tasks
    BY DEF Responses
  <2>3. QED
    BY <2>1, <2>2
<1>2. /\ requests' \in Seq(Tasks) /\ Distinct(requests')
      /\ Asked' \subseteq Asked /\ a.task \notin Asked'
  <2>1. requests \in Seq(Tasks) /\ Distinct(requests) /\ Asked \cap Served = {}
    BY DEF EditorInv, EditorTypes, AwaitInv
  <2>2. CASE requests # <<>> /\ a.task = Head(requests) /\ requests' = Tail(requests)
    BY <2>1, <2>2, TakesRequest DEF Asked
  <2>3. CASE a.task \in Served /\ requests' = requests
    BY <2>1, <2>3 DEF Asked
  <2>4. QED
    BY <2>2, <2>3
<1>3. Served' \subseteq Served /\ a.task \notin Served'
  <2>1. Served' \subseteq Served
    BY DEF Served
  <2>2. a.task \in Asked => a.task \notin Served
    BY DEF EditorInv, AwaitInv
  <2>3. requests # <<>> /\ a.task = Head(requests) => a.task \in Asked
    BY TakesRequest DEF EditorInv, EditorTypes, AwaitInv, Asked
  <2>4. QED
    BY <2>1, <2>2, <2>3
<1>4. /\ replies \in Seq(Responses) /\ OneEach(replies) /\ InOrder(replies, tasks)
      /\ a.task \notin TasksOf(replies)
  BY <1>1 DEF EditorInv, EditorTypes, AwaitInv, ReplyInv, Answered
<1>5. \A b \in Range(replies) : NotNewer(b, a, tasks)
  BY DEF EditorInv, ReplyInv, Fits, NotNewer, IsDiff
<1>6. /\ replies' \in Seq(Responses) /\ OneEach(replies') /\ InOrder(replies', tasks)
      /\ Range(replies') = Range(replies) \cup {a}
  BY <1>4, <1>5, GivesAnother
<1>7. EditorTypes'
  BY <1>2, <1>6 DEF EditorInv, EditorTypes, RunsGrow
<1>8. Answered' = Answered \cup {a.task}
  BY <1>6 DEF Answered, TasksOf
<1>9. AwaitInv'
  BY <1>1, <1>2, <1>3, <1>6, <1>8 DEF EditorInv, AwaitInv
<1>10. ReplyInv'
  BY <1>6, GrowingKeeps DEF ReplyInv
<1>11. QED
  BY <1>7, <1>9, <1>10, GrowingKeeps DEF EditorInv

\* A loop starts for the oldest request.
LEMMA LoopStep ==
  ASSUME EditorInv, UNCHANGED <<tasks, listeners, notices, views>>, requests # <<>>,
         NEW t, t = Head(requests), NEW r \in RunIds, LoopStarts(t, r),
         requests' = Tail(requests), tasks[t].stage \in {"run", "resume"},
         runs[r].status \in {"NONE", "PAUSED"}
  PROVE  EditorInv'
<1>1. /\ runs' = [runs EXCEPT ![r].status = "RUNNING"]
      /\ serving' = serving \cup {<<t, r>>} /\ replies' = replies
  BY DEF LoopStarts
<1>2. /\ requests' \in Seq(Tasks) /\ Distinct(requests') /\ Asked' = Asked \ {t}
      /\ t \in Asked /\ t \in Tasks
  <2>1. requests \in Seq(Tasks) /\ Distinct(requests)
    BY DEF EditorInv, EditorTypes, AwaitInv
  <2>2. QED
    BY <2>1, TakesRequest, RangeOfQueue DEF Asked
<1>3. runs \in [RunIds -> RunRecords]
  BY DEF EditorInv, EditorTypes
<1>4. /\ runs' \in [RunIds -> RunRecords] /\ runs'[r].status = "RUNNING"
      /\ runs'[r].version = runs[r].version
      /\ runs'[r].landed = runs[r].landed /\ runs'[r].cut = runs[r].cut
      /\ \A x \in RunIds \ {r} : runs'[x] = runs[x]
  BY <1>1, <1>3 DEF RunRecords, Statuses
<1>5. RunsGrow
  <2>1. runs[r].conflict => runs[r].cut
    BY DEF EditorInv, LandedInv, IsAccountedFor
  <2>2. runs'[r].conflict = runs[r].conflict
    BY <1>1, <1>3 DEF RunRecords
  <2>3. LandedInv'
    BY <1>4, <2>1, <2>2 DEF EditorInv, LandedInv, IsAccountedFor
  <2>4. \A x \in RunIds : runs[x].version \in Nat
    BY <1>3, EditorAssumption DEF RunRecords
  <2> QED
    BY <1>4, <2>3, <2>4 DEF RunsGrow
<1>6. Served' = Served \cup {t} /\ t \notin Served /\ t \notin Answered
  <2>1. <<t, r>>[1] = t
    OBVIOUS
  <2>2. {s[1] : s \in serving \cup {<<t, r>>}} = {s[1] : s \in serving} \cup {t}
    BY <2>1, Zenon
  <2>3. Served' = Served \cup {t}
    BY <1>1, <2>2 DEF Served
  <2>4. QED
    BY <1>2, <2>3 DEF EditorInv, AwaitInv
<1>7. \A s \in serving : s[1] # t /\ s[2] # r /\ s[2] \in RunIds
  BY <1>6 DEF Served, EditorInv, EditorTypes, LoopInv
<1>8. EditorTypes'
  BY <1>1, <1>2, <1>4 DEF EditorInv, EditorTypes
<1>9. AwaitInv'
  <2>1. Answered' = Answered
    BY <1>1 DEF Answered
  <2>2. \A s, z \in serving' : s[1] = z[1] => s = z
    BY <1>1, <1>7 DEF EditorInv, AwaitInv
  <2>3. tasks[t].stage \in Methods
    BY DEF Methods, OfARun
  <2>4. QED
    BY <1>1, <1>2, <1>6, <2>1, <2>2, <2>3 DEF EditorInv, AwaitInv
<1>10. LoopInv'
  BY <1>1, <1>4, <1>7 DEF EditorInv, LoopInv
<1>11. ReplyInv'
  BY <1>1, <1>5, GrowingKeeps DEF EditorInv, ReplyInv
<1>12. QED
  BY <1>5, <1>8, <1>9, <1>10, <1>11, GrowingKeeps DEF EditorInv

\* The answers the handlers make.
LEMMA ResponseFacts ==
  ASSUME NEW t \in Tasks, NEW r \in RunIds \cup {NoRunId}, NEW ok \in BOOLEAN
  PROVE  /\ Response(t, r, ok) \in Responses
         /\ Response(t, r, ok).task = t /\ Response(t, r, ok).run = r
         /\ Response(t, r, ok).ok = ok
  BY EditorAssumption DEF Response, Responses, Statuses

LEMMA SoundFacts ==
  ASSUME EditorInv, NEW t \in Tasks, NEW r \in RunIds
  PROVE  /\ Sound(t, r) \in Responses
         /\ Sound(t, r).task = t /\ Sound(t, r).run = r /\ Sound(t, r).ok
         /\ Sound(t, r).version = runs[r].version
<1>1. runs[r] \in RunRecords
  BY DEF EditorInv, EditorTypes
<1>2. QED
  BY <1>1, EditorAssumption DEF Sound, Response, Responses, RunRecords

\* A handler that changes no run answers what the runs are.
LEMMA RepliesStep ==
  ASSUME EditorInv, UNCHANGED <<tasks, listeners, notices, views>>, requests # <<>>,
         requests' = Tail(requests),
         NEW a \in Responses, a.task = Head(requests), OnlyReplies(a),
         Fits(a, tasks[a.task].stage), IsDiff(a, tasks) => a.version = runs[a.run].version
  PROVE  EditorInv'
<1>1. runs' = runs /\ serving' = serving /\ replies' = Append(replies, a)
  BY DEF OnlyReplies, Replies
<1>2. RunsGrow
  <2>1. runs \in [RunIds -> RunRecords]
    BY DEF EditorInv, EditorTypes
  <2>2. \A r \in RunIds : runs[r].version \in Nat
    BY <2>1, EditorAssumption DEF RunRecords
  <2>3. QED
    BY <1>1, <2>1, <2>2 DEF RunsGrow, EditorInv, LandedInv, IsAccountedFor
<1>3. LoopInv' /\ Fits(a, tasks[a.task].stage)'
  BY <1>1 DEF EditorInv, LoopInv, Fits
<1>4. QED
  BY <1>1, <1>2, <1>3, AnswerStep

\* A run that awaits approval is landed or discarded, and the answer says which.
LEMMA LandsStep ==
  ASSUME EditorInv, UNCHANGED <<tasks, listeners, notices, views>>, requests # <<>>,
         requests' = Tail(requests), NEW t \in Tasks, t = Head(requests), NEW r \in RunIds,
         \/ tasks[t].stage = "approve" /\ Lands(t, r, "DONE")
         \/ tasks[t].stage = "reject" /\ Lands(t, r, "CANCELLED")
  PROVE  EditorInv'
<1>1. PICK status \in {"DONE", "CANCELLED"}, conflict \in BOOLEAN :
        /\ runs[r].status = "AWAITING_APPROVAL"
        /\ runs' = [runs EXCEPT ![r].status = status, ![r].conflict = @ \/ conflict,
                                ![r].landed = @ \/ status = "DONE"]
        /\ Replies([Sound(t, r) EXCEPT !.conflict = conflict])
        /\ UNCHANGED serving
        /\ tasks[t].stage = IF status = "DONE" THEN "approve" ELSE "reject"
  BY DEF Lands
<1>2. PICK a \in Responses :
        /\ a = [Sound(t, r) EXCEPT !.conflict = conflict]
        /\ a.task = t /\ a.run = r /\ a.ok /\ a.conflict = conflict
  <2>1. PICK b \in Responses : b = Sound(t, r) /\ b.task = t /\ b.run = r /\ b.ok
    BY SoundFacts
  <2>2. /\ [b EXCEPT !.conflict = conflict] \in Responses
        /\ [b EXCEPT !.conflict = conflict].task = t /\ [b EXCEPT !.conflict = conflict].run = r
        /\ [b EXCEPT !.conflict = conflict].ok
        /\ [b EXCEPT !.conflict = conflict].conflict = conflict
    BY <2>1 DEF Responses
  <2>3. QED
    BY <2>1, <2>2
<1>3. runs \in [RunIds -> RunRecords]
  BY DEF EditorInv, EditorTypes
<1>4. /\ runs' \in [RunIds -> RunRecords] /\ runs'[r].status = status
      /\ runs'[r].conflict = (runs[r].conflict \/ conflict)
      /\ runs'[r].landed = (runs[r].landed \/ status = "DONE")
      /\ runs'[r].version = runs[r].version /\ runs'[r].cut = runs[r].cut
      /\ \A x \in RunIds \ {r} : runs'[x] = runs[x]
  <2>1. runs[r] \in RunRecords
    BY <1>3
  <2> DEFINE run == [runs[r] EXCEPT !.status = status, !.conflict = @ \/ conflict,
                                    !.landed = @ \/ status = "DONE"]
  <2>2. /\ run \in RunRecords /\ run.status = status
        /\ run.conflict = (runs[r].conflict \/ conflict)
        /\ run.landed = (runs[r].landed \/ status = "DONE")
        /\ run.version = runs[r].version /\ run.cut = runs[r].cut
    BY <2>1 DEF RunRecords, Statuses
  <2>3. runs' = [runs EXCEPT ![r] = run]
    BY <1>1, <1>3
  <2> HIDE DEF run
  <2> QED
    BY <1>3, <2>2, <2>3
<1>5. RunsGrow
  <2>1. \A x \in RunIds \ {r} : IsAccountedFor(runs'[x])
    BY <1>4 DEF EditorInv, LandedInv
  <2>2. runs[r].landed => runs[r].cut
    BY <1>1 DEF EditorInv, LandedInv, IsAccountedFor
  <2>3. IsAccountedFor(runs'[r])
    BY <1>1, <1>4, <2>2 DEF EditorInv, LandedInv, IsAccountedFor
  <2>4. LandedInv'
    BY <2>1, <2>3 DEF LandedInv
  <2>5. \A x \in RunIds : runs[x].version \in Nat
    BY <1>3, EditorAssumption DEF RunRecords
  <2>6. \A x \in RunIds : runs[x].version <= runs'[x].version
    BY <1>4, <2>5
  <2>7. \A x \in RunIds : runs[x].status \in {"DONE", "CANCELLED"} => runs'[x] = runs[x]
    BY <1>1, <1>4
  <2> QED
    BY <1>4, <2>4, <2>6, <2>7 DEF RunsGrow
<1>6. LoopInv'
  <2>1. \A s \in serving : s[2] # r /\ s[2] \in RunIds
    BY <1>1 DEF EditorInv, EditorTypes, LoopInv
  <2>2. QED
    BY <1>1, <1>4, <2>1 DEF EditorInv, LoopInv
<1>7. replies' = Append(replies, a)
  BY <1>1, <1>2 DEF Replies
<1>8. Fits(a, tasks[a.task].stage)'
  <2>1. runs'[r].conflict => conflict \/ runs'[r].cut
    BY <1>1, <1>4 DEF EditorInv, LandedInv, IsAccountedFor
  <2> QED
    BY <1>1, <1>2, <1>4, <2>1 DEF Fits, TellsConflict
<1>9. ~IsDiff(a, tasks)
  BY <1>1, <1>2 DEF IsDiff
<1>10. QED
  BY <1>1, <1>2, <1>5, <1>6, <1>7, <1>8, <1>9, AnswerStep

\* A handler that stops before its end: what it leaves is accounted for.
LEMMA LeftGrows ==
  ASSUME EditorInv, NEW method, NEW r, method \in OfARun => r \in RunIds,
         runs' \in LeftBy(method, r)
  PROVE  RunsGrow /\ \A x \in RunIds : runs'[x].status = runs[x].status
<1>1. runs \in [RunIds -> RunRecords] /\ \A x \in RunIds : runs[x] \in RunRecords
  BY DEF EditorInv, EditorTypes
<1>2. \A x \in RunIds : runs[x].version \in Nat /\ IsAccountedFor(runs[x])
  BY <1>1, EditorAssumption DEF RunRecords, EditorInv, LandedInv
<1>3. CASE runs' = runs
  BY <1>1, <1>2, <1>3 DEF RunsGrow, LandedInv
<1>4. ASSUME r \in RunIds, NEW left \in RunRecords, runs' = [runs EXCEPT ![r] = left],
             IsAccountedFor(left), left.status = runs[r].status,
             runs[r].version <= left.version, runs[r].status \notin {"DONE", "CANCELLED"}
      PROVE  RunsGrow /\ \A x \in RunIds : runs'[x].status = runs[x].status
  <2>1. /\ runs' \in [RunIds -> RunRecords] /\ runs'[r] = left
        /\ \A x \in RunIds \ {r} : runs'[x] = runs[x]
    BY <1>1, <1>4
  <2>2. LandedInv'
    BY <1>2, <1>4, <2>1 DEF LandedInv, IsAccountedFor
  <2> QED
    BY <1>2, <1>4, <2>1, <2>2 DEF RunsGrow
<1>5. ASSUME NEW left \in Halves(method, runs[r]), runs' = [runs EXCEPT ![r] = left]
      PROVE  RunsGrow /\ \A x \in RunIds : runs'[x].status = runs[x].status
  <2>1. CASE method \in {"approve", "reject"} /\ runs[r].status = "AWAITING_APPROVAL"
    <3>1. PICK conflict \in BOOLEAN :
            left = [runs[r] EXCEPT !.landed = @ \/ method = "approve",
                                   !.conflict = @ \/ conflict, !.cut = TRUE]
      BY <1>5, <2>1 DEF Halves
    <3>2. r \in RunIds /\ runs[r] \in RunRecords
      BY <1>1, <2>1 DEF OfARun
    <3>3. /\ left \in RunRecords /\ left.cut /\ left.status = runs[r].status
          /\ left.version = runs[r].version
      BY <3>1, <3>2 DEF RunRecords
    <3>4. runs[r].version <= left.version /\ IsAccountedFor(left)
      BY <1>2, <3>2, <3>3 DEF IsAccountedFor
    <3> QED
      BY <1>4, <1>5, <2>1, <3>2, <3>3, <3>4
  <2>2. CASE method = "rollback" /\ Worked(runs[r]) /\ runs[r].version < MaxVersion
    <3>1. left = [runs[r] EXCEPT !.version = @ + 1]
      BY <1>5, <2>2 DEF Halves
    <3>2. r \in RunIds /\ runs[r] \in RunRecords
      BY <1>1, <2>2 DEF OfARun
    <3>3. runs[r].version + 1 \in 0..MaxVersion
      BY <1>2, <2>2, <3>2, EditorAssumption
    <3>4. /\ left \in RunRecords /\ left.cut = runs[r].cut /\ left.status = runs[r].status
          /\ left.landed = runs[r].landed /\ left.conflict = runs[r].conflict
          /\ left.version = runs[r].version + 1
      BY <3>1, <3>2, <3>3 DEF RunRecords
    <3>5. runs[r].version <= left.version /\ IsAccountedFor(left)
      BY <1>2, <3>2, <3>4 DEF IsAccountedFor
    <3> QED
      BY <1>4, <1>5, <2>2, <3>2, <3>4, <3>5 DEF Worked
  <2> QED
    BY <1>5, <2>1, <2>2 DEF Halves
<1> QED
  BY <1>3, <1>5 DEF LeftBy

LEMMA FailsStep ==
  ASSUME EditorInv, UNCHANGED <<tasks, listeners, notices, views>>, requests # <<>>,
         requests' = Tail(requests), NEW t \in Tasks, t = Head(requests),
         NEW r \in RunIds \cup {NoRunId}, NEW method, method \in OfARun => r \in RunIds,
         runs' \in LeftBy(method, r), Replies(Response(t, r, FALSE)), UNCHANGED serving
  PROVE  EditorInv'
<1>1. RunsGrow /\ \A x \in RunIds : runs'[x].status = runs[x].status
  BY LeftGrows
<1>2. LoopInv'
  BY <1>1 DEF EditorInv, EditorTypes, LoopInv
<1>3. PICK a \in Responses : a = Response(t, r, FALSE) /\ a.task = t /\ ~a.ok
  BY ResponseFacts
<1>4. Fits(a, tasks[a.task].stage)' /\ ~IsDiff(a, tasks) /\ replies' = Append(replies, a)
  BY <1>3 DEF Fits, IsDiff, Replies
<1> QED
  BY <1>1, <1>2, <1>3, <1>4, AnswerStep

\* A rolled back run has another version, and stays what it is.
LEMMA RollbackStep ==
  ASSUME EditorInv, UNCHANGED <<tasks, listeners, notices, views>>, requests # <<>>,
         requests' = Tail(requests), NEW t \in Tasks, t = Head(requests), NEW r \in RunIds,
         tasks[t].stage = "rollback", runs[r].version < MaxVersion,
         runs' = [runs EXCEPT ![r].version = @ + 1], Replies(Sound(t, r)), UNCHANGED serving
  PROVE  EditorInv'
<1>1. runs \in [RunIds -> RunRecords]
  BY DEF EditorInv, EditorTypes
<1>2. runs[r].version \in Nat /\ runs[r].version + 1 \in 0..MaxVersion
  BY <1>1, EditorAssumption DEF RunRecords
<1>3. /\ runs' \in [RunIds -> RunRecords] /\ runs'[r].status = runs[r].status
      /\ runs'[r].conflict = runs[r].conflict /\ runs'[r].version = runs[r].version + 1
      /\ runs'[r].landed = runs[r].landed /\ runs'[r].cut = runs[r].cut
      /\ \A x \in RunIds \ {r} : runs'[x] = runs[x]
  BY <1>1, <1>2 DEF RunRecords
<1>4. RunsGrow
  BY <1>1, <1>2, <1>3, EditorAssumption DEF RunsGrow, RunRecords, EditorInv, LandedInv, IsAccountedFor
<1>5. \A x \in RunIds : runs'[x].status = runs[x].status
  BY <1>3
<1>6. LoopInv'
  BY <1>5 DEF EditorInv, EditorTypes, LoopInv
<1>7. PICK a \in Responses : a = Sound(t, r) /\ a.task = t /\ a.run = r /\ a.ok
  BY SoundFacts
<1>8. Fits(a, tasks[a.task].stage)' /\ ~IsDiff(a, tasks)
  BY <1>7 DEF Fits, IsDiff
<1>9. replies' = Append(replies, a)
  BY <1>7 DEF Replies
<1>10. QED
  BY <1>4, <1>6, <1>7, <1>8, <1>9, AnswerStep

LEMMA ServeStep == EditorInv /\ Serve => EditorInv'
<1> SUFFICES ASSUME EditorInv, Serve PROVE EditorInv'
  OBVIOUS
<1>1. PICK t, r, method : t = Head(requests) /\ r = tasks[t].run /\ method = tasks[t].stage
  OBVIOUS
<1>2. /\ requests # <<>> /\ requests' = Tail(requests)
      /\ UNCHANGED <<tasks, listeners, notices, views>>
  BY DEF Serve, clientVars
<1>3. /\ t \in Tasks /\ method \in Methods /\ r \in RunIds \cup {NoRunId}
      /\ method \in OfARun => r \in RunIds
      /\ tasks[t].kind \in Kinds
  <2>1. requests \in Seq(Tasks) /\ Distinct(requests)
    BY DEF EditorInv, EditorTypes, AwaitInv
  <2>2. t \in Asked /\ t \in Tasks
    BY <1>1, <1>2, <2>1, TakesRequest, RangeOfQueue DEF Asked
  <2>3. tasks[t] \in TaskStates /\ method \in Methods
    BY <1>1, <2>2 DEF EditorInv, EditorTypes, AwaitInv
  <2>4. QED
    BY <1>1, <2>2, <2>3 DEF EditorInv, TaskInv, TaskStates, Methods, OfARun
<1>4. CASE /\ method # "listRuns" /\ runs' \in LeftBy(method, r)
           /\ Replies(Response(t, r, FALSE)) /\ UNCHANGED serving
  BY <1>1, <1>2, <1>3, <1>4, FailsStep
<1>5. CASE method = "listRuns" /\
           OnlyReplies([Response(t, r, TRUE) EXCEPT !.choices = Offers(tasks[t].kind)])
  <2>1. Offers(tasks[t].kind) \in SUBSET RunIds
    BY DEF Offers
  <2>2. /\ Response(t, r, TRUE) \in Responses /\ Response(t, r, TRUE).task = t
    BY <1>3, ResponseFacts
  <2>3. PICK a \in Responses :
          a = [Response(t, r, TRUE) EXCEPT !.choices = Offers(tasks[t].kind)] /\ a.task = t
    <3>1. PICK b \in Responses, some \in SUBSET RunIds :
            b = Response(t, r, TRUE) /\ some = Offers(tasks[t].kind) /\ b.task = t
      BY <2>1, <2>2
    <3>2. [b EXCEPT !.choices = some] \in Responses /\ [b EXCEPT !.choices = some].task = t
      BY <3>1 DEF Responses
    <3>3. QED
      BY <3>1, <3>2
  <2>4. Fits(a, tasks[a.task].stage) /\ ~IsDiff(a, tasks)
    BY <1>1, <1>5, <2>3 DEF Fits, IsDiff
  <2>5. QED
    BY <1>1, <1>2, <1>5, <2>3, <2>4, RepliesStep
<1>6. ASSUME NEW new \in RunIds, LoopStarts(t, new), method \in {"run", "resume"},
             runs[new].status \in {"NONE", "PAUSED"}
      PROVE  EditorInv'
  BY <1>1, <1>2, <1>6, LoopStep
<1>7. ASSUME r \in RunIds, method \in {"resume", "pr", "diffFiles"}, OnlyReplies(Sound(t, r))
      PROVE  EditorInv'
  <2>1. PICK a \in Responses : /\ a = Sound(t, r) /\ a.task = t /\ a.run = r
                               /\ a.version = runs[r].version
    BY <1>3, <1>7, SoundFacts
  <2>2. views[r] <= runs[r].version /\ runs[r].version <= runs[r].version
    BY <1>7, EditorAssumption DEF EditorInv, EditorTypes, NoticeInv, RunRecords
  <2>3. Fits(a, tasks[a.task].stage)
    BY <1>1, <1>7, <2>1, <2>2 DEF Fits
  <2>4. QED
    BY <1>1, <1>2, <1>7, <2>1, <2>3, RepliesStep
<1>8. ASSUME r \in RunIds, method = "checkpoints", NEW some \in SUBSET {r},
             OnlyReplies([Sound(t, r) EXCEPT !.choices = some])
      PROVE  EditorInv'
  <2>1. Sound(t, r) \in Responses /\ Sound(t, r).task = t /\ Sound(t, r).run = r
    BY <1>3, <1>8, SoundFacts
  <2>2. PICK a \in Responses : /\ a = [Sound(t, r) EXCEPT !.choices = some]
                               /\ a.task = t /\ a.run = r
    BY <1>8, <2>1 DEF Responses
  <2>3. Fits(a, tasks[a.task].stage) /\ ~IsDiff(a, tasks)
    BY <1>1, <1>8, <2>2 DEF Fits, IsDiff
  <2>4. QED
    BY <1>1, <1>2, <1>8, <2>2, <2>3, RepliesStep
<1>9. CASE \/ method = "approve" /\ Lands(t, r, "DONE")
           \/ method = "reject" /\ Lands(t, r, "CANCELLED")
  BY <1>1, <1>2, <1>3, <1>9, LandsStep DEF OfARun
<1>10. CASE /\ method = "rollback" /\ Worked(runs[r]) /\ runs[r].version < MaxVersion
            /\ runs' = [runs EXCEPT ![r].version = @ + 1]
            /\ Replies(Sound(t, r)) /\ UNCHANGED serving
  BY <1>1, <1>2, <1>3, <1>10, RollbackStep DEF OfARun
<1>11. method \in {"resume", "pr", "diffFiles", "checkpoints"} => r \in RunIds
  BY <1>3 DEF OfARun
<1>12. QED
  BY <1>1, <1>4, <1>5, <1>6, <1>7, <1>8, <1>9, <1>10, <1>11 DEF Serve

\* A loop ends: its run is another, and the command that started it is answered.
LEMMA LoopEndsStep == EditorInv /\ LoopEnds => EditorInv'
<1> SUFFICES ASSUME EditorInv, LoopEnds PROVE EditorInv'
  OBVIOUS
<1>1. PICK s \in serving, status \in {"AWAITING_APPROVAL", "PAUSED", "FAILED", "RUNNING"} :
        /\ runs[s[2]].version < MaxVersion
        /\ runs' = [runs EXCEPT ![s[2]].status = status, ![s[2]].version = @ + 1]
        /\ serving' = serving \ {s}
        /\ Replies([Response(s[1], s[2], status # "RUNNING") EXCEPT !.status = status])
  BY DEF LoopEnds
<1>2. PICK t \in Tasks, r \in RunIds : t = s[1] /\ r = s[2]
  BY DEF EditorInv, EditorTypes
<1>3. UNCHANGED <<requests, tasks, listeners, notices, views>>
  BY DEF LoopEnds, clientVars
<1>4. /\ runs \in [RunIds -> RunRecords] /\ runs[r].status = "RUNNING"
      /\ tasks[t].stage \in {"run", "resume"} /\ t \in Served
  BY <1>2 DEF EditorInv, EditorTypes, LoopInv, AwaitInv, Served
<1>5. runs[r].version \in Nat /\ runs[r].version + 1 \in 0..MaxVersion
  BY <1>1, <1>2, <1>4, EditorAssumption DEF RunRecords
<1>6. /\ runs' \in [RunIds -> RunRecords] /\ runs'[r].version = runs[r].version + 1
      /\ runs'[r].landed = runs[r].landed /\ runs'[r].cut = runs[r].cut
      /\ runs'[r].conflict = runs[r].conflict
      /\ \A x \in RunIds \ {r} : runs'[x] = runs[x]
  BY <1>1, <1>2, <1>4, <1>5 DEF RunRecords, Statuses
<1>7. RunsGrow
  <2>1. LandedInv'
    BY <1>4, <1>6 DEF EditorInv, LandedInv, IsAccountedFor
  <2>2. \A x \in RunIds : runs[x].version \in Nat
    BY <1>4, EditorAssumption DEF RunRecords
  <2> QED
    BY <1>4, <1>5, <1>6, <2>1, <2>2 DEF RunsGrow
<1>8. LoopInv'
  <2>1. \A z \in serving' : z \in serving /\ z[2] # r /\ z[2] \in RunIds
    BY <1>1, <1>2 DEF EditorInv, EditorTypes, LoopInv
  <2>2. QED
    BY <1>6, <2>1 DEF EditorInv, LoopInv
<1>9. t \notin Served'
  BY <1>1, <1>2 DEF Served, EditorInv, AwaitInv
<1>10. PICK b \in Responses : b = Response(t, r, status # "RUNNING") /\ b.task = t /\ b.run = r
  <2>1. r \in RunIds \cup {NoRunId} /\ (status # "RUNNING") \in BOOLEAN
    OBVIOUS
  <2>2. QED
    BY <2>1, ResponseFacts
<1>11. PICK a \in Responses : /\ a = [Response(t, r, status # "RUNNING") EXCEPT !.status = status]
                              /\ a.task = t /\ a.run = r
  <2>1. /\ [b EXCEPT !.status = status] \in Responses
        /\ [b EXCEPT !.status = status].task = t /\ [b EXCEPT !.status = status].run = r
    BY <1>10 DEF Responses, Statuses
  <2>2. QED
    BY <1>10, <2>1
<1>12. replies' = Append(replies, a)
  BY <1>1, <1>2, <1>11 DEF Replies
<1>13. Fits(a, tasks[a.task].stage)' /\ ~IsDiff(a, tasks)
  BY <1>3, <1>4, <1>11 DEF Fits, IsDiff
<1>14. serving' \subseteq serving
  BY <1>1
<1>15. QED
  BY <1>3, <1>4, <1>7, <1>8, <1>9, <1>11, <1>12, <1>13, <1>14, AnswerStep

\* A server that is gone answers nothing more; an extension that is gone awaits nothing.
LEMMA GoneStep ==
  ASSUME EditorInv, ServerExits \/ Deactivate
  PROVE  EditorInv'
<1>0. RunsGrow
  <2>1. CASE ~serverUp \/ requests = <<>>
    <3>1. runs' = runs
      BY <2>1 DEF ServerExits, Deactivate, LeftByServer
    <3>2. runs \in [RunIds -> RunRecords] /\ \A r \in RunIds : runs[r].version \in Nat
      BY EditorAssumption DEF EditorInv, EditorTypes, RunRecords
    <3> QED
      BY <3>1, <3>2 DEF RunsGrow, EditorInv, LandedInv
  <2>2. CASE serverUp /\ requests # <<>>
    <3> DEFINE t == Head(requests)
    <3>1. runs' \in LeftBy(tasks[t].stage, tasks[t].run)
      BY <2>2 DEF ServerExits, Deactivate, LeftByServer
    <3>2. requests \in Seq(Tasks) /\ Distinct(requests)
      BY DEF EditorInv, EditorTypes, AwaitInv
    <3>3. t \in Tasks
      BY <2>2, <3>2, TakesRequest, RangeOfQueue
    <3>4. tasks[t].stage \in OfARun => tasks[t].run \in RunIds
      BY <3>3 DEF EditorInv, TaskInv
    <3> QED
      BY <3>1, <3>4, LeftGrows
  <2> QED
    BY <2>1, <2>2
<1>1. /\ UNCHANGED <<notices, views>> /\ requests' = <<>> /\ serving' = {}
      /\ \/ UNCHANGED <<tasks, replies, listeners>>
         \/ tasks' = [t \in Tasks |-> NoTask] /\ replies' = <<>> /\ listeners' = {}
  BY DEF ServerExits, Deactivate, clientVars
<1>2. /\ <<>> \in Seq(Tasks) /\ <<>> \in Seq(Responses) /\ Len(<<>>) = 0 /\ Range(<<>>) = {}
  BY DEF Range
<1>3. NoTask \in TaskStates /\ NoTask.stage = "idle"
  BY DEF NoTask, TaskStates, Stages
<1>4. EditorTypes'
  BY <1>0, <1>1, <1>2, <1>3 DEF EditorInv, EditorTypes, RunsGrow
<1>5. TaskInv'
  BY <1>1, <1>3 DEF EditorInv, TaskInv, OfARun
<1>6. Asked' = {} /\ Served' = {} /\ (replies' = <<>> => Answered' = {})
  BY <1>1, <1>2 DEF Asked, Served, Answered, TasksOf
<1>7. Distinct(requests') /\ LoopInv' /\ (replies' = <<>> => OneEach(replies') /\ InOrder(replies', tasks'))
  BY <1>1, <1>2 DEF Distinct, OneEach, InOrder, LoopInv
<1>8. AwaitInv'
  BY <1>1, <1>6, <1>7 DEF EditorInv, AwaitInv, Answered
<1>9. ReplyInv'
  <2>1. CASE UNCHANGED <<tasks, replies, listeners>>
    BY <1>0, <1>1, <2>1, GrowingKeeps DEF EditorInv, ReplyInv
  <2>2. CASE replies' = <<>>
    BY <1>1, <1>2, <1>7, <2>2 DEF ReplyInv
  <2> QED
    BY <1>1, <2>1, <2>2
<1>10. NoticeInv' /\ LandedInv'
  BY <1>0, <1>1, GrowingNotices DEF RunsGrow
<1>11. ListenInv'
  BY <1>1 DEF EditorInv, ListenInv
<1>12. QED
  BY <1>4, <1>5, <1>7, <1>8, <1>9, <1>10, <1>11 DEF EditorInv

\* So every step of the editor and its server keeps the invariant.
LEMMA EditorStep == EditorInv /\ [EditorNext]_editorVars => EditorInv'
<1> SUFFICES ASSUME EditorInv, [EditorNext]_editorVars PROVE EditorInv'
  OBVIOUS
<1>1. CASE UNCHANGED editorVars
  BY <1>1 DEF editorVars, EditorInv, EditorTypes, TaskInv, AwaitInv, Asked, Answered, Served,
     LoopInv, ReplyInv, Fits, NoticeInv, Told, ListenInv, LandedInv
<1>2. CASE EditorNext
  BY <1>2, CommandStep, PickStep, DeliverStep, GoneStep, ServeStep, LoopEndsStep DEF EditorNext
<1>3. QED
  BY <1>1, <1>2

\* What was true when it was answered is what the user is told.
LEMMA TellsTheTruth == EditorInv => EditorTellsTheTruth
<1> SUFFICES ASSUME EditorInv PROVE EditorTellsTheTruth
  OBVIOUS
<1>1. ASSUME NEW r \in RunIds
      PROVE  /\ <<"approved", r>> \in notices => runs[r].status = "DONE" /\ runs[r].landed
             /\ <<"rejected", r>> \in notices =>
                  runs[r].status = "CANCELLED" /\ (runs[r].landed => runs[r].cut)
             /\ runs[r].conflict /\ ~runs[r].cut /\ notices \cap {<<"approved", r>>, <<"rejected", r>>} # {}
                  => <<"warning", r>> \in notices
  <2>1. NoticeInv /\ IsAccountedFor(runs[r])
    BY DEF EditorInv, LandedInv
  <2>2. notices \cap {<<"approved", r>>, <<"rejected", r>>} # {}
          => <<"approved", r>> \in notices \/ <<"rejected", r>> \in notices
    OBVIOUS
  <2>3. QED
    BY <2>1, <2>2 DEF NoticeInv, Told, ToldOf, IsAccountedFor
<1>2. ASSUME NEW i \in DOMAIN replies, replies[i].ok, tasks[replies[i].task].stage = "diffFiles"
      PROVE  replies[i].version >= views[replies[i].run]
  <2>1. PICK a \in Range(replies) : a = replies[i]
    BY DEF Range
  <2>2. replies \in Seq(Responses) /\ views \in [RunIds -> 0..MaxVersion]
    BY DEF EditorInv, EditorTypes
  <2>3. a \in Responses
    BY <2>2, RangeOfQueue
  <2>4. Fits(a, "diffFiles")
    BY <1>2, <2>1 DEF EditorInv, ReplyInv
  <2>5. a.run \in RunIds /\ views[a.run] <= a.version
    BY <1>2, <2>1, <2>4 DEF Fits
  <2>6. a.version \in Nat /\ views[a.run] \in Nat
    BY <2>2, <2>3, <2>5, EditorAssumption DEF Responses
  <2>7. QED
    BY <2>1, <2>5, <2>6
<1>3. ListenInv
  BY DEF EditorInv
<1>4. QED
  BY <1>1, <1>2, <1>3 DEF EditorTellsTheTruth, ListenInv

\* The work of a run the user was told is approved was merged, that of one called
\* rejected was not, and a conflict was told, unless an approve or a reject of it was
\* cut short; no editor goes back to an older diff; and no command that is
\* over still listens: however many commands overlap (apps/vscode/src/extension.ts).
THEOREM EditorAlwaysTellsTheTruth == EditorSpec => []EditorTellsTheTruth
<1>1. QED
  BY TellsTheTruth, EditorStart, EditorStep, PTL DEF EditorSpec
===============================================================================
