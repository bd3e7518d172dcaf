------------------------------ MODULE KeyStore ------------------------------
(***************************************************************************)
(* KeepSecret's encrypted file and what is kept in it: the identity        *)
(* CryptoManager loads, moves out of an old plaintext config or generates  *)
(* when the program starts, the group passphrase of AppSettings and a      *)
(* group key of NetworkManager.                                            *)
(*                                                                         *)
(* Every access to the store opens the file, derives its key and decrypts  *)
(* it: each is a step that may fail, and the program may end before any of *)
(* them.  A key is a number, a pair of halves two of them.                 *)
(***************************************************************************)
EXTENDS Integers, QtHash

CONSTANTS
    Legacy,         \* key pairs old configs hold
    Phrases,        \* passphrases, and keys of the group others made
    None, Bad,      \* no value; a half that does not decode
    MaxKeys,        \* keys this program generates (bound)
    MaxFaults,      \* writes that fail and restored configs (bound)
    MaxMisreads     \* reads of the file that fail (bound)

VARIABLES
    store,      \* what secrets.enc holds: name -> value
    config,     \* the plaintext keys of the config file: name -> value or None
    pc, after,  \* the step the start-up is at, and where dropping returns to
    pair,       \* m_identitySk and m_dhSk: [id, dh]
    passphrase, \* m_groupPassphrase
    groupKey,   \* m_groupKeys of the group
    made, faults, misreads, \* counts (bounds)
    promised    \* name -> value the program said nothing against (history)

counters == <<made, faults, misreads>>
memory == <<pair, passphrase, groupKey>>
vars == <<store, config, pc, after, memory, counters, promised>>

Halves == {"id", "dh"}
Superseded(half) == IF half = "id" THEN "oldId" ELSE "oldDh"
NoPair == [h \in Halves |-> None]
Entry(entries, name) == Value(entries, name, None)
-----------------------------------------------------------------------------
(* KeepSecret *)

\* loadFile(): any failure reads as a store with nothing in it.
Reads(entries) ==
    \/ entries = store /\ UNCHANGED misreads
    \/ /\ misreads < MaxMisreads
       /\ misreads' = misreads + 1
       /\ entries = EmptyHash
Readable == {store, EmptyHash}

\* write() and remove(): all of the file is read and written again.
Saves(entries, ok) ==
    IF ok THEN store' = entries /\ UNCHANGED faults
    ELSE faults < MaxFaults /\ faults' = faults + 1 /\ UNCHANGED store
Write(name, value, ok) ==
    \E entries \in Readable :
        Reads(entries) /\ Saves(Insert(entries, name, value), ok)
Erase(name, ok) ==
    \E entries \in Readable :
        /\ Reads(entries)
        /\ IF name \in DOMAIN entries
           THEN Saves(Remove(entries, {name}), ok)
           ELSE ok /\ UNCHANGED <<store, faults>>

\* purgePlaintextConfigKeys(): what cannot be rewritten stays.
Purge(names, ok) ==
    IF ok THEN /\ config' = [n \in DOMAIN config |->
                                IF n \in names THEN None ELSE config[n]]
               /\ UNCHANGED faults
    ELSE faults < MaxFaults /\ faults' = faults + 1 /\ UNCHANGED config
-----------------------------------------------------------------------------
(* CryptoManager: loadStoredKeys(), migrateLegacyKeys() and the rest *)

Goto(step) == pc' = step /\ UNCHANGED after
Usable(p) == \A h \in Halves : p[h] \notin {None, Bad}
LegacyPair == [h \in Halves |-> config[h]]
CanMigrate == \A h \in Halves : config[h] # None
IfMissing == IF CanMigrate THEN "migrateId" ELSE "generateId"

Start ==
    /\ pc = "off"
    /\ Goto("readId")
    /\ pair' = NoPair
    /\ UNCHANGED <<store, config, passphrase, groupKey, counters, promised>>

ReadHalf(step, half, found) ==
    /\ pc = step
    /\ \E entries \in Readable :
           /\ Reads(entries)
           /\ IF Entry(entries, half) # None
              THEN pair' = [pair EXCEPT ![half] = Entry(entries, half)] /\ pc' = found
              ELSE pair' = pair /\ pc' = IfMissing
    /\ after' = "check"
    /\ UNCHANGED <<store, config, passphrase, groupKey, made, faults, promised>>
FileFirst ==
    IF CanMigrate THEN /\ pc = "readId" /\ Goto("migrateId")
                       /\ UNCHANGED <<store, config, memory, counters, promised>>
    ELSE ReadHalf("readId", "id", "readDh")
ReadId == ReadHalf("readId", "id", "readDh")
ReadDh == ReadHalf("readDh", "dh", "drop")

\* The legacy pair is in use from here on, stored or not.
Migrate(step, half, stored) ==
    /\ pc = step
    /\ pair' = LegacyPair
    /\ \E ok \in BOOLEAN :
           /\ Write(half, config[half], ok)
           /\ pc' = IF ok THEN stored ELSE "check"
    /\ after' = "check"
    /\ UNCHANGED <<config, passphrase, groupKey, made, promised>>
MigrateId == Migrate("migrateId", "id", "migrateDh")
MigrateDh == Migrate("migrateDh", "dh", "drop")

\* A half of the wrong size: a new pair replaces both.
Check ==
    /\ pc = "check"
    /\ Goto(IF Usable(pair) THEN "readPassphrase" ELSE "generateId")
    /\ UNCHANGED <<store, config, memory, counters, promised>>

\* A pair that cannot be stored is good for this session.
GenerateId ==
    /\ pc = "generateId" /\ made < MaxKeys
    /\ made' = made + 1
    /\ pair' = [h \in Halves |-> made']
    /\ \E ok \in BOOLEAN :
           /\ Write("id", made', ok)
           /\ Goto(IF ok THEN "generateDh" ELSE "readPassphrase")
    /\ UNCHANGED <<config, passphrase, groupKey, promised>>
GenerateDh ==
    /\ pc = "generateDh"
    /\ \E ok \in BOOLEAN :
           /\ Write("dh", pair["dh"], ok)
           /\ pc' = IF ok THEN "drop" ELSE "readPassphrase"
    /\ after' = "readPassphrase"
    /\ UNCHANGED <<config, memory, made, promised>>

\* stashSupersededPlaintextKeys(): nothing to drop, the pair the store holds,
\* or one it has to have a copy of first.  A read that fails is a difference.
MatchesIdentity(entries) == config["id"] = Entry(entries, "id")
Matches(entries) == \A h \in Halves : config[h] = Entry(entries, h)
Compare ==
    /\ pc = "drop"
    /\ IF LegacyPair = NoPair THEN Goto(after) /\ UNCHANGED misreads
       ELSE \E entries \in Readable :
                Reads(entries) /\ Goto(IF Matches(entries) THEN "purge" ELSE "stashId")
    /\ UNCHANGED <<store, config, memory, made, faults, promised>>

Stash(step, half, stashed) ==
    /\ pc = step
    /\ \E ok \in BOOLEAN :
           /\ IF config[half] = None
              THEN ok /\ UNCHANGED <<store, faults, misreads>>
              ELSE Write(Superseded(half), config[half], ok)
           /\ Goto(IF ok THEN stashed ELSE after)
    /\ UNCHANGED <<config, memory, made, promised>>
StashId == Stash("stashId", "id", "stashDh")
StashDh == Stash("stashDh", "dh", "purge")

DropPlaintext ==
    /\ pc = "purge"
    /\ \E ok \in BOOLEAN : Purge(Halves, ok)
    /\ Goto(after)
    /\ UNCHANGED <<store, memory, made, misreads, promised>>
-----------------------------------------------------------------------------
(* AppSettings: loadGroupPassphrase(), setGroupPassphrase() *)

ReadPassphrase ==
    /\ pc = "readPassphrase"
    /\ \E entries \in Readable :
           /\ Reads(entries)
           /\ passphrase' = Entry(entries, "passphrase")
    /\ Goto(IF passphrase' # None THEN "purgePassphrase"
            ELSE IF config["passphrase"] # None THEN "movePassphrase"
            ELSE "ready")
    /\ UNCHANGED <<store, config, pair, groupKey, made, faults, promised>>
MovePassphrase ==
    /\ pc = "movePassphrase"
    /\ passphrase' = config["passphrase"]
    /\ \E ok \in BOOLEAN :
           /\ Write("passphrase", passphrase', ok)
           /\ Goto(IF ok THEN "purgePassphrase" ELSE "ready")
    /\ UNCHANGED <<config, pair, groupKey, made, promised>>
DropPassphrase ==
    /\ pc = "purgePassphrase"
    /\ \E ok \in BOOLEAN :
           IF config["passphrase"] = None THEN ok /\ UNCHANGED <<config, faults>>
           ELSE Purge({"passphrase"}, ok)
    /\ Goto("ready")
    /\ UNCHANGED <<store, memory, made, misreads, promised>>

\* What the user was not told of is there after the next start.
Promise(name, value, ok) ==
    promised' = IF ok /\ value # None THEN Insert(promised, name, value)
                ELSE Remove(promised, {name})
SetGroupPassphrase(p) ==
    /\ pc = "up" /\ p # passphrase
    /\ passphrase' = p
    /\ \E ok \in BOOLEAN :
           /\ IF p = None THEN Erase("passphrase", ok)
              ELSE Write("passphrase", p, ok)
           /\ Promise("passphrase", p, ok)
    /\ UNCHANGED <<config, pc, after, pair, groupKey, made>>
-----------------------------------------------------------------------------
(* NetworkManager: the key of a group *)

\* A message to the group: the key at hand, the stored one, or a new one that
\* is good for this session when it cannot be stored.
EnsureGroupKey ==
    /\ pc = "up" /\ groupKey = None
    /\ \E entries \in Readable :
           /\ Reads(entries)
           /\ IF Entry(entries, "group") # None
              THEN /\ groupKey' = Entry(entries, "group")
                   /\ UNCHANGED <<store, made, faults, promised>>
              ELSE /\ made < MaxKeys
                   /\ made' = made + 1 /\ groupKey' = made'
                   /\ \E ok \in BOOLEAN :
                          /\ Saves(Insert(store, "group", made'), ok)
                          /\ Promise("group", made', ok)
    /\ UNCHANGED <<config, pc, after, pair, passphrase>>

\* An invitation carries the key another member uses.
SetGroupKey(k) ==
    /\ pc = "up" /\ k # groupKey
    /\ groupKey' = k
    /\ \E ok \in BOOLEAN : Write("group", k, ok) /\ Promise("group", k, ok)
    /\ UNCHANGED <<config, pc, after, pair, passphrase, made>>
-----------------------------------------------------------------------------
(* The program comes up, ends at any step, and finds an older config *)

Held(name, value) ==
    value # None /\ Entry(store, name) = value /\ name \notin DOMAIN promised
Announce ==
    /\ pc = "ready"
    /\ Goto("up")
    /\ LET pairHeld == \A h \in Halves : Held(h, pair[h])
           phraseHeld == Held("passphrase", passphrase)
           new == (IF pairHeld THEN Halves ELSE {})
                  \cup (IF phraseHeld THEN {"passphrase"} ELSE {})
       IN promised' = [n \in DOMAIN promised \cup new |->
                          IF n \notin new THEN promised[n]
                          ELSE IF n \in Halves THEN pair[n] ELSE passphrase]
    /\ UNCHANGED <<store, config, memory, counters>>

Quit ==
    /\ pc # "off"
    /\ pc' = "off" /\ after' = "check"
    /\ pair' = NoPair /\ passphrase' = None /\ groupKey' = None
    /\ UNCHANGED <<store, config, counters, promised>>

Configs ==
    {[id |-> i, dh |-> d, passphrase |-> p] :
        i \in Legacy \cup {None, Bad}, d \in Legacy \cup {None},
        p \in Phrases \cup {None}}
RestoreConfig ==
    /\ pc = "off" /\ faults < MaxFaults
    /\ faults' = faults + 1
    /\ config' \in Configs
    /\ UNCHANGED <<store, pc, after, memory, made, misreads, promised>>

Init ==
    /\ store = EmptyHash /\ config \in Configs
    /\ pc = "off" /\ after = "check"
    /\ pair = NoPair /\ passphrase = None /\ groupKey = None
    /\ made = 0 /\ faults = 0 /\ misreads = 0
    /\ promised = EmptyHash

Next ==
    \/ Start \/ ReadId \/ ReadDh \/ MigrateId \/ MigrateDh \/ Check
    \/ GenerateId \/ GenerateDh \/ Compare \/ StashId \/ StashDh
    \/ DropPlaintext \/ ReadPassphrase \/ MovePassphrase \/ DropPassphrase
    \/ Announce \/ Quit \/ RestoreConfig
    \/ \E p \in Phrases \cup {None} : SetGroupPassphrase(p)
    \/ EnsureGroupKey
    \/ \E k \in Phrases : SetGroupKey(k)

Spec == Init /\ [][Next]_vars
-----------------------------------------------------------------------------
\* The identity a run came up with and the store held, the passphrase and the
\* group key nobody was warned about are those of every later run, wherever one
\* ended and whatever could not be written (CryptoManager::initKeypairs,
\* AppSettings::loadGroupPassphrase, NetworkManager::ensureGroupKey).
SecretsComeBack ==
    pc = "up" =>
        \A n \in DOMAIN promised :
            CASE n \in Halves -> pair[n] = promised[n]
              [] n = "passphrase" -> passphrase = promised[n]
              [] OTHER -> groupKey \in {None, promised[n]}

\* The plaintext of a private key goes only when the store has a copy of it, in
\* use or superseded (CryptoManager::migrateLegacyKeys, dropLegacyPlaintextKeys).
PlaintextGoesLast ==
    [][pc = "purge" =>
           \A h \in Halves :
               config'[h] # config[h] =>
                   config[h] \in {Entry(store, h), Entry(store, Superseded(h))}]_vars
=============================================================================
