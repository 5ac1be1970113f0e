--------------------------- MODULE MCWalletTicker ---------------------------
(* Two wallets, two edits, another page's save, a failed request, and an    *)
(* unlock followed by one more change of management.                        *)
EXTENDS WalletTicker

MCNames == 1..2
MCSelections == {{}, {1}, {1, 2}}
MCBalances == {{2}, {1, 2}}
=============================================================================
