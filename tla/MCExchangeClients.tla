--------------------------- MODULE MCExchangeClients ---------------------------
(***************************************************************************)
(* ExchangeClients with one edit, one connection test, one command line.   *)
(***************************************************************************)
EXTENDS ExchangeClients

CONSTANTS e1, v1, x1

MCScripts == {e1, v1, x1}
MCRuns    == {e1}
MCChecks  == {v1}
MCExecs   == {x1}
MCNone    == {}
===============================================================================
