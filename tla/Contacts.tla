------------------------------ MODULE Contacts ------------------------------
(***************************************************************************)
(* The address book a phone shares (plugins/contacts.rs, and the API        *)
(* handlers that read it and ask for it again).  A sync takes two round     *)
(* trips: the list of uids with their timestamps, then the vCards of the    *)
(* uids that are new or newer.  Packets of one link arrive in order; the    *)
(* phone may edit its contacts between any two of them.                     *)
(*                                                                         *)
(* A contact is its version, which stands for timestamp and vCard alike;    *)
(* version 0 is no contact.  A vCard of version v is v units long.          *)
(***************************************************************************)
EXTENDS Naturals, Sequences, FiniteSets, FiniteSetsExt, SequencesExt, Functions

CONSTANTS CnUids, CnVersions, CnMaxContacts, CnMaxBytes, CnChanges, CnSyncs

ASSUME CnAssumption ==
    /\ IsFiniteSet(CnUids) /\ CnUids # {}
    /\ {CnVersions, CnMaxContacts, CnMaxBytes, CnChanges, CnSyncs} \subseteq Nat

VARIABLES
    cnPhone,      \* the phone's contacts, a version per uid
    cnUp,         \* whether the link is up
    cnOut,        \* requests under way to the phone
    cnIn,         \* responses under way to the daemon
    cnTs,         \* DeviceContacts.timestamps
    cnCards,      \* DeviceContacts.contacts
    cnBytes,      \* DeviceContacts.total_vcard_bytes
    cnRefused,    \* ghost: uids whose latest vCard a cap refused
    cnFresh,      \* ghost: no edit since the phone last listed its uids
    cnLeft        \* edits and syncs left in this run

cnVars == <<cnPhone, cnUp, cnOut, cnIn, cnTs, cnCards, cnBytes, cnRefused, cnFresh, cnLeft>>

-----------------------------------------------------------------------------
CnBooks == [CnUids -> 0..CnVersions]
CnNobody == [u \in CnUids |-> 0]
CnIn(book) == {u \in CnUids : book[u] # 0}

CnLength(version) == version
CnTotal(book) == MapThenSumSet(LAMBDA u : CnLength(book[u]), CnUids)

CnAskUids == [ask |-> "uids", of |-> {}]
CnAskCards(uids) == [ask |-> "cards", of |-> uids]

CnTypeOK ==
    /\ cnPhone \in CnBooks /\ cnTs \in CnBooks /\ cnCards \in CnBooks
    /\ cnUp \in BOOLEAN /\ cnFresh \in BOOLEAN
    /\ cnOut \in Seq([ask : {"uids", "cards"}, of : SUBSET CnUids])
    /\ cnIn \in Seq([answer : {"uids", "cards"}, book : CnBooks])
    /\ cnBytes \in 0..CnMaxBytes
    /\ cnRefused \subseteq CnUids
    /\ cnLeft \in [{"edit", "sync"} -> Nat]

CnInit ==
    /\ cnPhone \in CnBooks
    /\ cnUp = FALSE
    /\ cnOut = <<>> /\ cnIn = <<>>
    /\ cnTs = CnNobody /\ cnCards = CnNobody /\ cnBytes = 0
    /\ cnRefused = {} /\ cnFresh = FALSE
    /\ cnLeft = [edit |-> CnChanges, sync |-> CnSyncs]

-----------------------------------------------------------------------------
(* The phone. *)

CnEdit ==
    \E u \in CnUids, v \in 0..CnVersions :
        /\ cnLeft.edit > 0
        /\ v # cnPhone[u] /\ (v # 0 => v > cnPhone[u])
        /\ cnPhone' = [cnPhone EXCEPT ![u] = v]
        /\ cnFresh' = FALSE
        /\ cnLeft' = [cnLeft EXCEPT !.edit = @ - 1]
        /\ UNCHANGED <<cnUp, cnOut, cnIn, cnTs, cnCards, cnBytes, cnRefused>>

CnPhoneAnswers ==
    /\ cnUp /\ cnOut # <<>>
    /\ LET m == Head(cnOut)
           book == IF m.ask = "uids" THEN cnPhone
                   ELSE [u \in CnUids |-> IF u \in m.of THEN cnPhone[u] ELSE 0]
       IN /\ cnIn' = Append(cnIn, [answer |-> m.ask, book |-> book])
          /\ cnFresh' = (m.ask = "uids" \/ cnFresh)
    /\ cnOut' = Tail(cnOut)
    /\ UNCHANGED <<cnPhone, cnUp, cnTs, cnCards, cnBytes, cnRefused, cnLeft>>

-----------------------------------------------------------------------------
(* The daemon. *)

CnConnected ==
    /\ ~cnUp
    /\ cnUp' = TRUE
    /\ cnOut' = <<CnAskUids>>
    /\ UNCHANGED <<cnPhone, cnIn, cnTs, cnCards, cnBytes, cnRefused, cnFresh, cnLeft>>

(* The link is lost with everything in flight; on_disconnected drops the book. *)
CnDisconnected ==
    /\ cnUp /\ cnLeft.sync > 0
    /\ cnUp' = FALSE
    /\ cnOut' = <<>> /\ cnIn' = <<>>
    /\ cnTs' = CnNobody /\ cnCards' = CnNobody /\ cnBytes' = 0
    /\ cnRefused' = {} /\ cnFresh' = FALSE
    /\ cnLeft' = [cnLeft EXCEPT !.sync = @ - 1]
    /\ UNCHANGED cnPhone

(* sync_contacts of the API: the connected check, then the same request. *)
CnSync ==
    /\ cnUp /\ cnLeft.sync > 0
    /\ cnOut' = Append(cnOut, CnAskUids)
    /\ cnLeft' = [cnLeft EXCEPT !.sync = @ - 1]
    /\ UNCHANGED <<cnPhone, cnUp, cnIn, cnTs, cnCards, cnBytes, cnRefused, cnFresh>>

CnToFetchNewer(reported) ==
    {u \in CnIn(reported) : cnTs[u] # reported[u]}

CnToFetch(reported) ==
    {u \in CnIn(reported) : cnTs[u] # reported[u] \/ cnCards[u] = 0}

CnReportSeen(reported) ==
    LET kept == [u \in CnUids |-> IF reported[u] = 0 THEN 0 ELSE cnCards[u]]
        fetch == CnToFetch(reported)
    IN /\ cnTs' = reported
       /\ cnCards' = kept
       /\ cnBytes' = CnTotal(kept)
       /\ cnOut' = IF fetch = {} THEN cnOut ELSE Append(cnOut, CnAskCards(fetch))
       /\ cnRefused' = cnRefused \ CnToFetch(reported)

CnHandleUids ==
    /\ cnUp /\ cnIn # <<>> /\ Head(cnIn).answer = "uids"
    /\ cnIn' = Tail(cnIn)
    /\ CnReportSeen(Head(cnIn).book)
    /\ UNCHANGED <<cnPhone, cnUp, cnFresh, cnLeft>>

(* One vCard of store_vcards_inner, on the state of the device's book. *)
CnProspective(st, u, version) == (st.bytes + CnLength(version)) - CnLength(st.cards[u])

CnPastCap(st, u, version) ==
    \/ st.cards[u] = 0 /\ Cardinality(CnIn(st.cards)) >= CnMaxContacts
    \/ CnProspective(st, u, version) > CnMaxBytes

CnStoreOne(st, u, version) ==
    IF cnTs[u] = 0 THEN st
    ELSE IF CnPastCap(st, u, version) THEN [st EXCEPT !.refused = @ \cup {u}]
    ELSE [cards |-> [st.cards EXCEPT ![u] = version],
          bytes |-> CnProspective(st, u, version),
          refused |-> st.refused \ {u}]

CnStore(book, order) ==
    FoldLeft(LAMBDA st, u : CnStoreOne(st, u, book[u]),
             [cards |-> cnCards, bytes |-> cnBytes, refused |-> cnRefused],
             order)

(* The order of the uids in the packet is that of a hash map. *)
CnHandleCards ==
    /\ cnUp /\ cnIn # <<>> /\ Head(cnIn).answer = "cards"
    /\ cnIn' = Tail(cnIn)
    /\ LET book == Head(cnIn).book
       IN \E order \in SetToSeqs(CnIn(book)) :
            LET st == CnStore(book, order)
            IN cnCards' = st.cards /\ cnBytes' = st.bytes /\ cnRefused' = st.refused
    /\ UNCHANGED <<cnPhone, cnUp, cnOut, cnTs, cnFresh, cnLeft>>

CnNext ==
    \/ CnEdit \/ CnPhoneAnswers
    \/ CnConnected \/ CnDisconnected \/ CnSync
    \/ CnHandleUids \/ CnHandleCards

CnSpec == CnInit /\ [][CnNext]_cnVars

-----------------------------------------------------------------------------
(* Once a sync has run its course and the phone was not edited after it     *)
(* listed its uids, get_contacts returns the phone's contacts exactly, but  *)
(* for those whose vCard a cap of store_vcards_inner refused; and the byte   *)
(* counter is the size of what is stored.                                   *)
ContactsConverge ==
    /\ cnBytes = CnTotal(cnCards)
    /\ (cnUp /\ cnFresh /\ cnOut = <<>> /\ cnIn = <<>>) =>
          \A u \in CnUids \ cnRefused : cnCards[u] = cnPhone[u]

=============================================================================
