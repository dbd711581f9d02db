--------------------------- MODULE CredentialStore ---------------------------
(***************************************************************************)
(* Where API keys are kept (packages/agent-api/src/credentials.ts): the    *)
(* OS keychain where there is one, else one encrypted file for all         *)
(* accounts under a machine key made on first use                          *)
(* (credential-file-store.ts), else the environment.  `auth set` and       *)
(* `auth clear` read the file, change one account and write it again; the  *)
(* key file is made by whoever finds it missing.                           *)
(***************************************************************************)
CONSTANTS
  Accounts,    \* "anthropic-api-key", "openai-api-key"
  Values,      \* secrets
  MachineKeys, \* keys that may be made
  Environment, \* the variables: a partial function of Accounts
  Writers,     \* processes
  NoKey, NoStore, TornStore, NoValue

\* What a keychain or a decrypted file may hold, and what a file may be.
Stores == UNION {[A -> Values] : A \in SUBSET Accounts}
Encrypted == [key : MachineKeys, accounts : Stores]

ASSUME CredentialAssumption ==
  /\ DOMAIN Environment \subseteq Accounts
  /\ NoKey \notin MachineKeys
  /\ NoValue \notin Values
  /\ NoStore \notin Stores /\ NoStore # TornStore
  /\ {NoStore, TornStore} \cap Encrypted = {}

VARIABLES
  keychain,    \* the OS keychain's accounts, or NoStore where there is none
  machineKey,  \* machine.key
  store,       \* credentials.age: the key it is encrypted with, and its accounts
  writer,      \* what each process is doing
  saved,       \* history: the secret last saved with success
  raced,       \* history: of the processes at work now, two have overlapped
  calm         \* history: one process at a time, none died, nobody took the
               \* key or the keychain away

credentialVars == <<keychain, machineKey, store, writer, saved, raced, calm>>

AtRest == [at |-> "rest"]

CredentialInit ==
  /\ keychain \in {NoStore, <<>>}
  /\ machineKey = NoKey /\ store = NoStore
  /\ writer = [w \in Writers |-> AtRest]
  /\ saved = [a \in Accounts |-> NoValue]
  /\ raced = FALSE /\ calm = TRUE

-----------------------------------------------------------------------------
(* Reading *)

Decrypts(key) == store # NoStore /\ store # TornStore /\ store.key = key
Undecryptable(key) == store # NoStore /\ ~Decrypts(key)

StoreGet(f, a) == IF a \in DOMAIN f THEN f[a] ELSE NoValue
FileStoreGet(a) == IF Decrypts(machineKey) THEN StoreGet(store.accounts, a) ELSE NoValue

\* readCredential, and loadCredentials' fallback
ReadCredential(a) == IF keychain # NoStore THEN StoreGet(keychain, a) ELSE FileStoreGet(a)
\* Mutant: the environment comes first.
LoadCredentialFromEnvironment(a) ==
  IF a \in DOMAIN Environment THEN Environment[a] ELSE ReadCredential(a)
LoadCredential(a) ==
  IF ReadCredential(a) # NoValue THEN ReadCredential(a) ELSE StoreGet(Environment, a)

-----------------------------------------------------------------------------
(* saveCredential and clearCredential; value is NoValue to clear *)

With(f, a, v) ==
  [b \in IF v = NoValue THEN DOMAIN f \ {a} ELSE DOMAIN f \cup {a} |->
     IF b = a THEN v ELSE f[b]]

Moves(w, to) == writer' = [writer EXCEPT ![w] = to]
Busy(w) == writer[w] # AtRest

Begins(w, a, v) ==
  /\ writer[w] = AtRest
  /\ v = NoValue /\ keychain = NoStore => store # NoStore   \* nothing to clear
  /\ Moves(w, [at |-> IF keychain # NoStore THEN "keychain" ELSE "key",
               account |-> a, value |-> v])
  /\ calm' = (calm /\ ~\E x \in Writers : Busy(x))
  /\ UNCHANGED <<keychain, machineKey, store, saved>>

Succeeds(w) == saved' = [saved EXCEPT ![writer[w].account] = writer[w].value]

\* keychainSet and keychainClear; they may fail, and say so.
UsesKeychain(w) ==
  /\ writer[w].at = "keychain" /\ keychain # NoStore
  /\ \/ keychain' = With(keychain, writer[w].account, writer[w].value) /\ Succeeds(w)
     \/ UNCHANGED <<keychain, saved>>
  /\ Moves(w, AtRest)
  /\ UNCHANGED <<machineKey, store, calm>>

\* fileStoreGet goes through ensureMachineKey too: where there is a store and
\* no key, a run or `auth status` that only reads makes one.
ReaderMakesKey ==
  /\ keychain = NoStore /\ store # NoStore /\ machineKey = NoKey
  /\ machineKey' \in MachineKeys
  /\ UNCHANGED <<keychain, store, writer, saved, calm>>

\* ensureMachineKey: looks for the file, and makes it in another step.
LooksForKey(w) ==
  /\ writer[w].at = "key"
  /\ Moves(w, IF machineKey = NoKey
              THEN [writer[w] EXCEPT !.at = "newkey"]
              ELSE [at |-> "read", account |-> writer[w].account,
                    value |-> writer[w].value, key |-> machineKey])
  /\ UNCHANGED <<keychain, machineKey, store, saved, calm>>

MakesKey(w) ==
  /\ writer[w].at = "newkey"
  /\ machineKey' \in MachineKeys \ {machineKey}
  /\ Moves(w, [at |-> "read", account |-> writer[w].account,
               value |-> writer[w].value, key |-> machineKey'])
  /\ UNCHANGED <<keychain, store, saved, calm>>

\* Mutant: what does not decrypt counts as empty.
ReadsStoreAsEmpty(w) ==
  LET me == writer[w]
      accounts == IF Decrypts(me.key) THEN store.accounts ELSE <<>> IN
  /\ me.at = "read"
  /\ Moves(w, [at |-> "write", account |-> me.account, value |-> me.value,
               key |-> me.key, accounts |-> accounts])
  /\ UNCHANGED <<keychain, machineKey, store, saved, calm>>

\* readStoreDetailed: what exists and does not decrypt is left alone.
ReadsStore(w) ==
  LET me == writer[w]
      accounts == IF store = NoStore THEN <<>> ELSE store.accounts IN
  /\ me.at = "read"
  /\ \/ /\ Undecryptable(me.key)
        /\ Moves(w, AtRest)
     \/ /\ ~Undecryptable(me.key)
        /\ IF me.value = NoValue /\ me.account \notin DOMAIN accounts
           THEN Moves(w, AtRest)
           ELSE Moves(w, [at |-> "write", account |-> me.account, value |-> me.value,
                          key |-> me.key, accounts |-> accounts])
  /\ UNCHANGED <<keychain, machineKey, store, saved, calm>>

WritesStore(w) ==
  LET me == writer[w] IN
  /\ me.at = "write"
  /\ store' = [key |-> me.key, accounts |-> With(me.accounts, me.account, me.value)]
  /\ Succeeds(w)
  /\ Moves(w, AtRest)
  /\ UNCHANGED <<keychain, machineKey, calm>>

\* A process dies; the file it was writing may be left cut short.
WriterDies(w) ==
  /\ writer[w] # AtRest
  /\ Moves(w, AtRest)
  /\ calm' = FALSE
  /\ \/ UNCHANGED store
     \/ writer[w].at = "write" /\ store' = TornStore
  /\ UNCHANGED <<keychain, machineKey, saved>>

\* The user removes machine.key, or a keychain comes or goes.
KeyIsLost ==
  /\ machineKey # NoKey
  /\ machineKey' = NoKey /\ calm' = FALSE
  /\ UNCHANGED <<keychain, store, writer, saved>>

KeychainChanges ==
  /\ keychain' = IF keychain = NoStore THEN <<>> ELSE NoStore
  /\ calm' = FALSE
  /\ UNCHANGED <<machineKey, store, writer, saved>>

Raced == \/ \E w, x \in Writers : w # x /\ Busy(w)' /\ Busy(x)'
         \/ raced /\ \E w \in Writers : Busy(w)'

CredentialNext ==
  /\ \/ KeyIsLost \/ KeychainChanges \/ ReaderMakesKey
     \/ \E w \in Writers :
          \/ \E a \in Accounts, v \in Values \cup {NoValue} : Begins(w, a, v)
          \/ UsesKeychain(w) \/ LooksForKey(w) \/ MakesKey(w) \/ ReadsStore(w)
          \/ WritesStore(w) \/ WriterDies(w)
  /\ raced' = Raced

CredentialSpec == CredentialInit /\ [][CredentialNext]_credentialVars

-----------------------------------------------------------------------------
(* Properties *)

CredentialTypeOK ==
  /\ keychain \in Stores \cup {NoStore}
  /\ machineKey \in MachineKeys \cup {NoKey}
  /\ store \in {NoStore, TornStore} \cup Encrypted
  /\ saved \in [Accounts -> Values \cup {NoValue}]
  /\ {raced, calm} \subseteq BOOLEAN

SavedIsServed ==
  calm => \A a \in Accounts :
            IF saved[a] # NoValue THEN LoadCredential(a) = saved[a]
                                  ELSE LoadCredential(a) = StoreGet(Environment, a)
WritesKeepOthers ==
  store \notin {NoStore, TornStore} /\ store' # TornStore /\ ~raced =>
    \A a \in DOMAIN store.accounts :
      \/ \E w \in Writers : writer[w].at = "write" /\ writer[w].account = a
      \/ a \in DOMAIN store'.accounts /\ store'.accounts[a] = store.accounts[a]

\* What `auth set` said it saved is what a run gets, from whichever tier,
\* until it is cleared or replaced; and a cleared one is gone from every tier
\* but the environment (credentials.ts:60-68).  No write drops a secret of
\* another account that was in the file when it began, readable or not: after
\* a lost key, a torn file, a process that died
\* (credential-file-store.ts:161-175).  Two writers at once may.
CredentialsAreKept == [][SavedIsServed' /\ WritesKeepOthers]_credentialVars
=============================================================================
