------------------------------- MODULE Registry -------------------------------
(***************************************************************************)
(* The on-chain registry of confirmed trades                               *)
(* (chain/src/TradeConfirmationRegistry.sol): one record per trade hash,   *)
(* written by confirm, superseded by amend, closed by terminate.           *)
(*                                                                         *)
(* A call carries two signatures.  Signatures are made off-chain and never *)
(* expire, so the world's signatures are a constant: Signed holds every    *)
(* <<address, message>> pair some key holder ever produces, and a call can *)
(* only succeed when both messages it needs are in it.  Anyone may submit  *)
(* a call; a call whose guard fails reverts and changes nothing.           *)
(* Block number and timestamp of a record are abstracted away.             *)
(***************************************************************************)
EXTENDS Naturals, FiniteSets

CONSTANTS Hashes,        \* trade hashes in use, bytes32
          ZeroHash,      \* bytes32(0): "no previous record"
          Addresses,     \* addresses some key signs for
          ZeroAddress,   \* address(0), for which no key signs
          Signed         \* the signatures in the world: <<address, message>>

VARIABLE confirmations

NoRecord == [partyA |-> ZeroAddress, partyB |-> ZeroAddress,
             prevHash |-> ZeroHash, status |-> "None"]

Bytes32 == Hashes \union {ZeroHash}

Status == {"None", "Confirmed", "Superseded", "Terminated"}

Confirmation == [partyA : Addresses \union {ZeroAddress},
                 partyB : Addresses \union {ZeroAddress},
                 prevHash : Bytes32,
                 status : Status]

(* EIP-712 messages: each one names the counterparty it binds to.          *)
ConfirmMsg(h, cp)   == [type |-> "TradeConfirmation", prev |-> ZeroHash, hash |-> h, counterparty |-> cp]
AmendMsg(p, h, cp)  == [type |-> "TradeAmendment", prev |-> p, hash |-> h, counterparty |-> cp]
TerminateMsg(h, cp) == [type |-> "TradeTermination", prev |-> ZeroHash, hash |-> h, counterparty |-> cp]

ASSUME ZeroAssumption == /\ ZeroHash \notin Hashes
                         /\ ZeroAddress \notin Addresses
                         /\ Signed \subseteq Addresses \X
                              [type : {"TradeConfirmation", "TradeAmendment", "TradeTermination"},
                               prev : Bytes32, hash : Bytes32, counterparty : Addresses \union {ZeroAddress}]

(* _requireSigner: the recovered address is the expected one; address(0)   *)
(* is never accepted, whatever was signed.                                 *)
RequireSigner(expected, msg) ==
  /\ expected # ZeroAddress
  /\ <<expected, msg>> \in Signed

(* Variant: confirm() forgets to refuse the zero hash.                     *)
CheckPartiesAnyHash(h, a, b) ==
  /\ a # ZeroAddress
  /\ b # ZeroAddress
  /\ a # b

CheckParties(h, a, b) ==
  /\ h # ZeroHash
  /\ a # ZeroAddress
  /\ b # ZeroAddress
  /\ a # b

Recorded(a, b, prev) ==
  [partyA |-> a, partyB |-> b, prevHash |-> prev, status |-> "Confirmed"]

-----------------------------------------------------------------------------
Deployed == confirmations = [h \in Bytes32 |-> NoRecord]

(* Variants: B's signature is not checked; an existing record is replaced. *)
ConfirmUnilateral(h, a, b) ==
  /\ CheckParties(h, a, b)
  /\ confirmations[h].status = "None"
  /\ RequireSigner(a, ConfirmMsg(h, b))

ConfirmReplayed(h, a, b) ==
  /\ CheckParties(h, a, b)
  /\ RequireSigner(a, ConfirmMsg(h, b))
  /\ RequireSigner(b, ConfirmMsg(h, a))

(* confirm(tradeHash, partyA, partyB, sigA, sigB)                          *)
ConfirmAccepted(h, a, b) ==
  /\ CheckParties(h, a, b)
  /\ confirmations[h].status = "None"
  /\ RequireSigner(a, ConfirmMsg(h, b))
  /\ RequireSigner(b, ConfirmMsg(h, a))

Confirm(h, a, b) ==
  /\ ConfirmAccepted(h, a, b)
  /\ confirmations' = [confirmations EXCEPT ![h] = Recorded(a, b, ZeroHash)]

(* Variant: the previous record is left Confirmed.                         *)
AmendKeepsPrevious(prev, new) ==
  LET c == confirmations[prev] IN
  /\ c.status = "Confirmed"
  /\ new # ZeroHash
  /\ confirmations[new].status = "None"
  /\ RequireSigner(c.partyA, AmendMsg(prev, new, c.partyB))
  /\ RequireSigner(c.partyB, AmendMsg(prev, new, c.partyA))
  /\ confirmations' = [confirmations EXCEPT ![new] = Recorded(c.partyA, c.partyB, prev)]

(* amend(prevHash, newHash, sigA, sigB): the pair of the previous record   *)
(* signs; the previous record is superseded in the same call.              *)
Amend(prev, new) ==
  LET c == confirmations[prev] IN
  /\ c.status = "Confirmed"
  /\ new # ZeroHash
  /\ confirmations[new].status = "None"
  /\ RequireSigner(c.partyA, AmendMsg(prev, new, c.partyB))
  /\ RequireSigner(c.partyB, AmendMsg(prev, new, c.partyA))
  /\ confirmations' = [confirmations EXCEPT ![prev].status = "Superseded",
                                            ![new] = Recorded(c.partyA, c.partyB, prev)]

(* terminate(tradeHash, sigA, sigB)                                        *)
Terminate(h) ==
  LET c == confirmations[h] IN
  /\ c.status = "Confirmed"
  /\ RequireSigner(c.partyA, TerminateMsg(h, c.partyB))
  /\ RequireSigner(c.partyB, TerminateMsg(h, c.partyA))
  /\ confirmations' = [confirmations EXCEPT ![h].status = "Terminated"]

Called ==
  \/ \E h \in Bytes32, a, b \in Addresses \union {ZeroAddress} : Confirm(h, a, b)
  \/ \E prev, new \in Bytes32 : Amend(prev, new)
  \/ \E h \in Bytes32 : Terminate(h)

registryVars == <<confirmations>>

RegistrySpec == Deployed /\ [][Called]_registryVars

-----------------------------------------------------------------------------
(* Every record is well formed; the zero hash, which means "no previous    *)
(* record", never holds one.                                               *)
RecordsOK ==
  /\ confirmations \in [Bytes32 -> Confirmation]
  /\ confirmations[ZeroHash] = NoRecord

Recs == {h \in Bytes32 : confirmations[h].status # "None"}

(* Both parties consented to every record, in the role the record gives    *)
(* them: a root record to the confirmation against each other, an amended  *)
(* one to this very replacement of its predecessor, a terminated one to    *)
(* the termination as well.                                                *)
Consented ==
  \A h \in Recs :
    LET c == confirmations[h] IN
    /\ c.prevHash = ZeroHash =>
         /\ <<c.partyA, ConfirmMsg(h, c.partyB)>> \in Signed
         /\ <<c.partyB, ConfirmMsg(h, c.partyA)>> \in Signed
    /\ c.prevHash # ZeroHash =>
         /\ <<c.partyA, AmendMsg(c.prevHash, h, c.partyB)>> \in Signed
         /\ <<c.partyB, AmendMsg(c.prevHash, h, c.partyA)>> \in Signed
    /\ c.status = "Terminated" =>
         /\ <<c.partyA, TerminateMsg(h, c.partyB)>> \in Signed
         /\ <<c.partyB, TerminateMsg(h, c.partyA)>> \in Signed

(* The amendment chain never forks and never breaks: a record is           *)
(* superseded exactly when some record names it as its predecessor, no two *)
(* records name the same predecessor, and the pair of distinct parties is  *)
(* the same along the chain.                                               *)
LineageSound ==
  /\ \A h \in Recs :
       LET c == confirmations[h] IN
       /\ c.partyA # c.partyB
       /\ c.prevHash # ZeroHash =>
            /\ confirmations[c.prevHash].status = "Superseded"
            /\ confirmations[c.prevHash].partyA = c.partyA
            /\ confirmations[c.prevHash].partyB = c.partyB
       /\ c.status = "Superseded" => \E n \in Recs : confirmations[n].prevHash = h
  /\ \A h1, h2 \in Recs :
       confirmations[h1].prevHash = confirmations[h2].prevHash
         => h1 = h2 \/ confirmations[h1].prevHash = ZeroHash

(* A record is written once and only its status moves, from Confirmed to   *)
(* Superseded or Terminated: neither a replayed confirm nor an amendment   *)
(* back to earlier terms brings a closed record to life again.             *)
RecordsOnlyClose ==
  [][\A h \in Bytes32 :
       confirmations[h].status # "None" =>
         \/ confirmations'[h] = confirmations[h]
         \/ /\ confirmations[h].status = "Confirmed"
            /\ \E s \in {"Superseded", "Terminated"} :
                 confirmations'[h] = [confirmations[h] EXCEPT !.status = s]]_registryVars
=============================================================================
