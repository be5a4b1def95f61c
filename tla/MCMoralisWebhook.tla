-------------------------- MODULE MCMoralisWebhook --------------------------
(***************************************************************************)
(* Two wallets, two devices, two transactions.  The bodies are one of each *)
(* shape the handler tells apart.                                          *)
(***************************************************************************)
EXTENDS MoralisWebhook

CONSTANTS h1, h2, nohash, none

MCTokens == {"phone", "tablet"}
MCAddresses == {"alice", "0xalice", "0xbob"}
MCHashes == {h1, h2, nohash}
MCPrefix == {<<"0xalice", "alice">>}

Item(to, hash, amount) == [to |-> to, hash |-> hash, amount |-> amount]
Tag(token) == [token |-> token, address |-> "alice"]
Body(tag, transfers, approvals, txs) ==
    [test |-> FALSE, tag |-> tag, transfers |-> transfers, approvals |-> approvals,
     txs |-> txs]

ToPhone == Body(Tag("phone"), <<Item("0xalice", h1, "ok")>>, <<>>, <<>>)
\* The same transfer, from the stream of another device with the same wallet.
ToTablet == Body(Tag("tablet"), <<Item("0xalice", h1, "ok")>>, <<>>, <<>>)
\* The wallet is only the second recipient of the same transaction.
SecondEntry == Body(Tag("phone"),
                    <<Item("0xbob", h1, "ok"), Item("0xalice", h1, "ok")>>, <<>>, <<>>)
Approval == Body(Tag("phone"), <<>>, <<Item("0xalice", h2, "ok")>>, <<>>)
Native == Body(Tag("phone"), <<>>, <<>>, <<Item("0xalice", h2, "ok")>>)
NoValue == Body(Tag("phone"), <<>>, <<>>, <<Item("0xalice", h2, "absent")>>)
Unreadable == Body(Tag("phone"), <<Item("0xalice", h2, "absent")>>, <<>>, <<>>)
Untagged == Body(none, <<Item("0xalice", h2, "ok")>>, <<>>, <<>>)
Test == [Body(none, <<>>, <<>>, <<>>) EXCEPT !.test = TRUE]

AllShapes == {ToPhone, ToTablet, SecondEntry, Approval, Native, NoValue, Unreadable, Untagged, Test}
=============================================================================
