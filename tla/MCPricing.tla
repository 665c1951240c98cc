----------------------------- MODULE MCPricing ------------------------------
(***************************************************************************)
(* Two assets and the rates 0.3 and 3.3, which lose 1% there and back, as    *)
(* the deployed 0.0000161 and 62111.801242236 lose 4 parts in 10^16; scales  *)
(* 1 and 2 for 6 and 8, four significant digits for 40 and one whole digit   *)
(* for 20.                                                                  *)
(***************************************************************************)
EXTENDS Pricing, TLC

CONSTANTS usdt, btc

Scales == usdt :> 10 @@ btc :> 100
BothWays == {<<usdt, btc>>, <<btc, usdt>>}
Units3 == <<usdt, btc>> :> 3 @@ <<btc, usdt>> :> 33
Ones3 == <<usdt, btc>> :> 10 @@ <<btc, usdt>> :> 10
Prices == usdt :> 3 @@ btc :> 1
Starts == {usdt :> 12 @@ btc :> 0, usdt :> 1 @@ btc :> 35}
TwoSteps == {1, 10}
=============================================================================
