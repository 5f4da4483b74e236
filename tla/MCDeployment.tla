----------------------------- MODULE MCDeployment -----------------------------
(* A market on a live network and two test markets, one of them with the    *)
(* tokens' addresses filled in; four reserves, so that they are listed in   *)
(* two transactions, and a fifth added to the configuration later.          *)
EXTENDS Deployment

MCMarkets ==
    { [testnet |-> FALSE, addresses |-> TRUE,  treasury |-> None],
      [testnet |-> TRUE,  addresses |-> FALSE, treasury |-> "Treasury"],
      [testnet |-> TRUE,  addresses |-> TRUE,  treasury |-> "Treasury"] }

MCFirstAssets == << "EURS", "RUSD", "WETH", "USDT" >>
MCLaterAssets == {"LSK"}
MCExpected == { <<"stable", "EURS">>, <<"ceiling", "USDT">>, <<"isolation", "RUSD">>,
                <<"eMode", "EURS">>, <<"fee", "LSK">>, <<"stable", "LSK">> }
MCForeign == {"ParaSwapLiquiditySwapAdapter", "ParaSwapRepayAdapter"}

=============================================================================
