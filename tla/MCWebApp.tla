------------------------------ MODULE MCWebApp ------------------------------
(***************************************************************************)
(* A small instance of WebApp: one worker with two threads, two required   *)
(* data sets and one optional, and a form for each way through run().      *)
(***************************************************************************)
EXTENDS WebApp, TLC

MCWorkerOf == [t \in Thread |-> CHOOSE w \in Worker : TRUE]
MCSaveOrder == <<"ledger", "bank", "invoices">>
MCRequired == {"ledger", "bank"}

Full == [filled |-> TRUE, dated |-> TRUE, sound |-> TRUE,
         ext |-> [name \in {"ledger", "bank", "invoices"} |-> "table"]]
Unnamed == [Full EXCEPT !.filled = FALSE]
NoBank == [Full EXCEPT !.ext["bank"] = "none"]
NoInvoices == [Full EXCEPT !.ext["invoices"] = "none"]
Photo == [Full EXCEPT !.ext["invoices"] = "other"]
Unsound == [Full EXCEPT !.sound = FALSE]

MCUploads == {Full, Unnamed, NoBank, NoInvoices, Photo, Unsound}
=============================================================================
