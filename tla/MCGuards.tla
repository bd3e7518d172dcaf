------------------------------- MODULE MCGuards -------------------------------
(***************************************************************************)
(* Five parts that stand between a host and the network or its disk, each  *)
(* checked by itself in one run: a behaviour is of one part, and the       *)
(* others stay as they began.                                              *)
(***************************************************************************)
EXTENDS ReplayGuard

CONSTANTS
    Sources, MaxPerSec, MaxRatePeers, Second, MaxRateClock,
    Tids, Sizes, ChunkSizes, Totals, Limits, MaxPendingTransfers, MaxPendingBytes,
    BytesPerChunk, SpareChunks, TransferTtl, Sweep,
    Legacy, Phrases, None, Bad, MaxKeys, MaxFaults, MaxMisreads,
    Hosts, MaxSent, MaxGroupKeys

VARIABLES part,
    rateNow, rateCounters, granted,
    pending, maxTransfer, sinceSweep, signal,
    store, config, pc, after, pair, passphrase, storedKey, made, faults, misreads,
    promised,
    session, phrase, groupKey, keys, wire, shown, read, sent

Rate == INSTANCE RateGate WITH now <- rateNow, MaxClock <- MaxRateClock
Files == INSTANCE FileReassembly WITH Ttl <- TransferTtl
Keys == INSTANCE KeyStore WITH groupKey <- storedKey
Mail == INSTANCE Delivery WITH MaxKeys <- MaxGroupKeys

rateVars == <<rateNow, rateCounters, granted>>
fileVars == <<pending, maxTransfer, sinceSweep, signal>>
keyVars == <<store, config, pc, after, pair, passphrase, storedKey, made, faults,
             misreads, promised>>
mailVars == <<session, phrase, groupKey, keys, wire, shown, read, sent>>
allVars == <<part, vars, rateVars, fileVars, keyVars, mailVars>>

MCInit ==
    /\ part \in {"replay", "rate", "files", "keys", "mail"}
    /\ Init /\ Rate!Init /\ Files!Init /\ Keys!Init /\ Mail!Init
    /\ part # "files" => \A l \in Limits : l <= maxTransfer
    /\ part # "keys" => \A n \in DOMAIN config : config[n] = None

MCNext ==
    \/ /\ part = "replay" /\ Next
       /\ UNCHANGED <<part, rateVars, fileVars, keyVars, mailVars>>
    \/ /\ part = "rate" /\ Rate!Next
       /\ UNCHANGED <<part, vars, fileVars, keyVars, mailVars>>
    \/ /\ part = "files" /\ Files!Next
       /\ UNCHANGED <<part, vars, rateVars, keyVars, mailVars>>
    \/ /\ part = "keys" /\ Keys!Next
       /\ UNCHANGED <<part, vars, rateVars, fileVars, mailVars>>
    \/ /\ part = "mail" /\ Mail!Next
       /\ UNCHANGED <<part, vars, rateVars, fileVars, keyVars>>
MCSpec == MCInit /\ [][MCNext]_allVars

MCStamps == 0..2
MCSizes == {-1, 2, 4}
MCLegacy == {-1, -2}
MCPhrases == {-3}

\* The properties of the other parts, under the names the run checks.
RateHeld == Rate!RateHeld
GrowsByTheHeard == Rate!GrowsByTheHeard
PendingTrue == Files!PendingTrue
SecretsComeBack == Keys!SecretsComeBack
PlaintextGoesLast == Keys!PlaintextGoesLast
TextsHold == Mail!TextsHold
=============================================================================
