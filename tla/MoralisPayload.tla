--------------------------- MODULE MoralisPayload ---------------------------
(***************************************************************************)
(* The body of a Moralis "moralis-transactions" webhook, as far as         *)
(* handleWebhookMoralis (webhook/webhook.service.ts) looks at it: the test *)
(* flag, the encrypted tag, and the three lists of which it reads only the *)
(* first entry of the first one that is usable.                            *)
(***************************************************************************)
EXTENDS Naturals, Sequences

CONSTANTS
    Tokens,     \* FCM registration tokens of devices
    Addresses,  \* wallet addresses, with and without their 0x
    Hashes,     \* transaction hashes, the Redis keys
    NoHash,     \* the key "" that ioredis sends for an undefined hash
    Prefix,     \* <<to, a>>: the string to starts with "0x" followed by a
    None        \* an absent field

ASSUME NoHashAssumption == NoHash \in Hashes
ASSUME NoneAssumption == None \notin Addresses

\* What decryptToken yields and split() cuts in two; a tag that AES-GCM rejects,
\* an absent one, or one read without a usable TAG_SECRET_KEY, is None.
Tags == [token : Tokens, address : Addresses]

\* An entry of erc20Transfers, erc20Approvals or txs. "amount" is what rendering
\* its value does: "ok", "absent" (undefined, falsy) or "bad" (formatEther throws).
Items == [to : Addresses \cup {None}, hash : Hashes, amount : {"ok", "absent", "bad"}]

Payload == [test : BOOLEAN, tag : Tags \cup {None},
            transfers : Seq(Items), approvals : Seq(Items), txs : Seq(Items)]

NoItem == [to |-> None, hash |-> NoHash, amount |-> "ok"]

\* The if / else-if chain: the first entry of the first usable list, or nothing,
\* in which case toAddress and txnHash stay undefined.
Picked(p) ==
    CASE p.transfers # <<>> -> p.transfers[1]
      [] p.transfers = <<>> /\ p.approvals # <<>> -> p.approvals[1]
      [] p.transfers = <<>> /\ p.approvals = <<>> /\ p.txs # <<>>
            /\ p.txs[1].amount # "absent" -> p.txs[1]
      [] OTHER -> NoItem

HashOf(p) == Picked(p).hash

\* An exception before the Redis lookup: decryption or formatEther.
Throws(p) == p.tag = None \/ Picked(p).amount # "ok"

StartsWith(to, address) == <<to, address>> \in Prefix

\* toAddress.startsWith(`0x${address}`); an absent toAddress throws a TypeError,
\* which the handler's catch turns into the same silent return.
Matches(p) == Picked(p).to # None /\ StartsWith(Picked(p).to, p.tag.address)

\* The events the handler means to announce.
Qualifies(p) == ~p.test /\ ~Throws(p) /\ Matches(p)
=============================================================================
