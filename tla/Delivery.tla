------------------------------ MODULE Delivery ------------------------------
(***************************************************************************)
(* Two hosts that write to each other over the LAN: what NetworkManager    *)
(* seals, under which key CryptoManager seals it, whether the datagram is  *)
(* signed, and what the other side makes of it.  Datagrams are lost, late  *)
(* and out of order; ReplayGuard shows that none is taken twice.           *)
(*                                                                         *)
(* A peer is one identity at several addresses, and a chat is one address: *)
(* a host may know the session and not know that the chat's address is its. *)
(***************************************************************************)
EXTENDS Naturals, QtHash

CONSTANTS
    Hosts,          \* two of them
    Phrases,        \* passphrases a user may set
    None,
    MaxSent,        \* datagrams (bound)
    MaxKeys         \* group keys ever made (bound)

VARIABLES
    session,    \* where a host finds its session: "none", "alias" (another
                \* address of the peer) or "chat"
    phrase,     \* m_groupPassphrase
    groupKey,   \* the group's key in m_groupKeys or the store, 0 when in neither
    keys,       \* group keys made
    wire,       \* the datagrams, also those that were taken
    shown,      \* what was passed on to the window and stands: [n, type, as]
    read,       \* one's own messages that are marked as read
    sent        \* datagrams sent

vars == <<session, phrase, groupKey, keys, wire, shown, read, sent>>

Other(h) == CHOOSE o \in Hosts : o # h
Clear == [by |-> "none", key |-> None]
Texts == {"private", "group"}
-----------------------------------------------------------------------------
(* CryptoManager *)

\* encrypt(): the session of the address, else the passphrase, else nothing.
Encrypt(h, address, pass) ==
    IF address = "chat" /\ session[h] = "chat" THEN [by |-> "session", key |-> None]
    ELSE IF pass # None THEN [by |-> "phrase", key |-> pass]
    ELSE Clear

\* decrypt() and the classification of decryptAsync(); the sender's session is
\* there, or nothing of its datagram came this far.
Decrypt(seal, pass) ==
    CASE seal.by = "session" -> "said"
      [] seal.by = "phrase" /\ seal.key = pass -> "said"
      [] OTHER -> "error"

\* A datagram is signed for a peer there is a session with, and verified by the
\* session with the identity it claims to come from.
SignPacket(h, targets) == session[h] \in targets
VerifyPacket(h, m) == m.signed /\ session[h] # "none"
-----------------------------------------------------------------------------
(* Sending *)

\* deliveryAddresses() adds the addresses the peer was heard from, and those it
\* advertised, to the one the chat is.
DeliveryAddresses == {"chat", "alias"}
\* sendUdpToAll(): signed for the first of its targets that has an identity.
SendTo(h, targets, type, seal, about) ==
    /\ sent < MaxSent /\ sent' = sent + 1
    /\ wire' = wire \cup
          {[n |-> sent', from |-> h, type |-> type, seal |-> seal, about |-> about,
            taken |-> FALSE,
            signed |-> SignPacket(h, targets)]}

PrivateSeal(h) ==
    Encrypt(h, "chat", IF session[h] = "chat" THEN None ELSE phrase[h])
Sealed(seal) == seal # Clear
SendPrivate(h) ==
    /\ Sealed(PrivateSeal(h))
    /\ SendTo(h, DeliveryAddresses, "private", PrivateSeal(h), 0)
    /\ UNCHANGED <<session, phrase, groupKey, keys, shown, read>>

\* The group's key is made with its first message.
EnsureGroupKey(h) ==
    \/ /\ groupKey[h] # 0 /\ UNCHANGED <<groupKey, keys>>
    \/ /\ groupKey[h] = 0 /\ keys < MaxKeys
       /\ keys' = keys + 1 /\ groupKey' = [groupKey EXCEPT ![h] = keys']
SendGroupMessage(h) ==
    /\ EnsureGroupKey(h)
    /\ SendTo(h, {"chat"}, "group", Encrypt(h, None, groupKey'[h]), 0)
    /\ UNCHANGED <<session, phrase, shown, read>>

\* The key rides along only under a session.
SendGroupInvite(h) ==
    /\ SendTo(h, {"chat"}, "invite", PrivateSeal(h),
              IF session[h] = "chat" THEN groupKey[h] ELSE 0)
    /\ UNCHANGED <<session, phrase, groupKey, keys, shown, read>>

Mine(h) == {m \in wire : m.from = h /\ m.type = "private"}
\* A corrected text or an emoji: sealed under the session if there is one.
SendEdit(h) ==
    /\ \E m \in Mine(h) : SendTo(h, {"chat"}, "edit", Encrypt(h, "chat", None), m.n)
    /\ UNCHANGED <<session, phrase, groupKey, keys, shown, read>>
SendReaction(h) ==
    /\ \E s \in shown[h] :
           SendTo(h, {"chat"}, "reaction", Encrypt(h, "chat", None), s.n)
    /\ UNCHANGED <<session, phrase, groupKey, keys, shown, read>>
SendDelete(h) ==
    /\ \E m \in Mine(h) : SendTo(h, {"chat"}, "delete", Clear, m.n)
    /\ UNCHANGED <<session, phrase, groupKey, keys, shown, read>>
\* Whenever the chat comes on the screen.
SendReadReceipt(h) ==
    /\ SendTo(h, DeliveryAddresses, "read", Clear, 0)
    /\ UNCHANGED <<session, phrase, groupKey, keys, shown, read>>
-----------------------------------------------------------------------------
(* Receiving: dispatch() and decryptMessageText() *)

PassphraseFor(h, m) ==
    IF m.type = "group" /\ groupKey[h] # 0 THEN groupKey[h] ELSE phrase[h]
Show(h, m, as) ==
    shown' = [shown EXCEPT ![h] = @ \cup {[n |-> m.n, type |-> m.type, as |-> as]}]
RawUnlessPhrase(h, m) ==
    IF PassphraseFor(h, m) = None
    THEN IF m.seal = Clear THEN "said" ELSE "cipher"
    ELSE Decrypt(m.seal, PassphraseFor(h, m))
\* With a session or a passphrase the text has to open, sealed or not.
DecryptMessageText(h, m) == Decrypt(m.seal, PassphraseFor(h, m))

TakeText(h, m) ==
    /\ m.type \in Texts
    /\ Show(h, m, DecryptMessageText(h, m))
    /\ UNCHANGED <<groupKey, read>>
\* Neither carries a "text": what they carry is shown as it is, if the message
\* it is about is found by its stamp.
TakeAmendment(h, m) ==
    /\ m.type \in {"edit", "reaction"}
    /\ \/ Show(h, m, IF m.seal = Clear THEN "said" ELSE "cipher")
       \/ UNCHANGED shown
    /\ UNCHANGED <<groupKey, read>>
TakeDelete(h, m) ==
    /\ m.type = "delete"
    /\ \/ shown' = [shown EXCEPT ![h] = {s \in @ : s.n # m.about}]
       \/ UNCHANGED shown
    /\ UNCHANGED <<groupKey, read>>
\* Every message of one's own is taken as read.
TakeRead(h, m) ==
    /\ m.type = "read"
    /\ read' = read \cup {x.n : x \in Mine(h)}
    /\ UNCHANGED <<groupKey, shown>>
TakeInvite(h, m) ==
    /\ m.type = "invite"
    /\ groupKey' = IF m.about = 0 THEN groupKey ELSE [groupKey EXCEPT ![h] = m.about]
    /\ UNCHANGED <<shown, read>>

Dispatch(h, m) ==
    \/ TakeText(h, m) \/ TakeAmendment(h, m) \/ TakeDelete(h, m)
    \/ TakeRead(h, m) \/ TakeInvite(h, m)
\* What is not authentic is dropped, and no sender is told.
HandleDatagram(m) ==
    /\ ~m.taken /\ VerifyPacket(Other(m.from), m)
    /\ Dispatch(Other(m.from), m)
    /\ wire' = (wire \ {m}) \cup {[m EXCEPT !.taken = TRUE]}
    /\ UNCHANGED <<session, phrase, keys, sent>>
-----------------------------------------------------------------------------
(* Around them *)

\* A beacon, from the chat's address or from another; an address may also pass
\* to somebody else, or fall off the list (PeerTable).
Handshake(h) ==
    /\ session' = [session EXCEPT ![h] = CASE @ = "none" -> "alias"
                                           [] @ = "alias" -> "chat"
                                           [] @ = "chat" -> "alias"]
    /\ UNCHANGED <<phrase, groupKey, keys, wire, shown, read, sent>>
SetGroupPassphrase(h) ==
    /\ \E p \in Phrases \cup {None} : phrase' = [phrase EXCEPT ![h] = p]
    /\ UNCHANGED <<session, groupKey, keys, wire, shown, read, sent>>
\* A group key the store did not take is gone.
Restart(h) ==
    /\ session[h] # "none" /\ session' = [session EXCEPT ![h] = "none"]
    /\ groupKey' \in {groupKey, [groupKey EXCEPT ![h] = 0]}
    /\ UNCHANGED <<phrase, keys, wire, shown, read, sent>>

Init ==
    /\ session = [h \in Hosts |-> "none"] /\ phrase = [h \in Hosts |-> None]
    /\ groupKey = [h \in Hosts |-> 0] /\ keys = 0
    /\ wire = {} /\ shown = [h \in Hosts |-> {}] /\ read = {} /\ sent = 0

Next ==
    \/ \E h \in Hosts :
          \/ SendPrivate(h) \/ SendGroupMessage(h) \/ SendGroupInvite(h)
          \/ SendEdit(h) \/ SendReaction(h) \/ SendDelete(h) \/ SendReadReceipt(h)
          \/ Handshake(h) \/ SetGroupPassphrase(h) \/ Restart(h)
    \/ \E m \in wire : HandleDatagram(m)
Spec == Init /\ [][Next]_vars
-----------------------------------------------------------------------------
\* A private or a group text never travels in the clear, and whatever keys were
\* set, made, handed on or forgotten on the way, on the other side it reads as
\* it was said or as an error: never as a cipher, and never as an error when it
\* was sealed under the session (sendPrivate, decryptMessageText).
TextsHold ==
    /\ \A m \in wire : m.type \in Texts => m.seal # Clear
    /\ \A h \in Hosts : \A s \in shown[h], m \in wire :
           s.n = m.n /\ s.type \in Texts =>
               /\ s.as \in {"said", "error"}
               /\ m.seal.by = "session" => s.as = "said"

\* "Edits contain the corrected text and must be encrypted" (sendMessageEdit).
EditsAreSealed == \A m \in wire : m.type = "edit" => m.seal # Clear

\* What is shown of an edit is text (decryptMessageText opens only "text").
EditsOpen == \A h \in Hosts : \A s \in shown[h] : s.as # "cipher"

\* A message marked as read has been on the other side's screen (sendReadReceipt,
\* markOwnMessagesRead).
ReadIsRead == \A m \in wire : m.n \in read => m.taken
=============================================================================
