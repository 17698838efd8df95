---------------------------- MODULE MCPipeline ----------------------------
(***************************************************************************)
(* A small instance of Pipeline: one rule of each kind (plain, invoice,    *)
(* bulk, timing), six records over three data sets, of which one has a     *)
(* number for an identifier and one has none, and one input per way a run  *)
(* can go.                                                                 *)
(***************************************************************************)
EXTENDS Pipeline, TLC

MCRule == {"R01", "R08", "R12", "R14"}
MCDataset == {"client_ledger", "trust_bank_statement", "reconciliation_summary"}
MCDatasetOf == [r \in MCRule |->
                  CASE r \in {"R01", "R08"} -> "client_ledger"
                    [] r = "R12" -> "trust_bank_statement"
                    [] r = "R14" -> "reconciliation_summary"]
MCRecord == {"L1", "L2", "N7", "E0", "B1", "P1"}

AllData == MCDataset \cup {"invoice_register", "allocations"}
Ledger == [client_ledger |-> {"L1", "L2"}, trust_bank_statement |-> {"B1"},
           reconciliation_summary |-> {"P1"}]

\* Every rule enabled, breaches of two of them.
Full == [valid |-> TRUE, enabled |-> <<"R01", "R08", "R14", "R12">>, readable |-> AllData,
         records |-> Ledger, dated |-> TRUE,
         breaches |-> {<<"R01", "L1">>, <<"R08", "L1">>, <<"R08", "L2">>, <<"R14", "P1">>},
         raising |-> {}, unwritable |-> {}]
\* No reconciliation dates, a rule enabled twice, no bulk rule.
Undated == [Full EXCEPT !.dated = FALSE, !.enabled = <<"R14", "R08", "R08">>]
\* Nothing to report, no invoice rule; R14 has no record to evaluate.
Clean == [Full EXCEPT !.enabled = <<"R12", "R14">>, !.breaches = {},
                      !.records["reconciliation_summary"] = {},
                      !.readable = AllData \ {"invoice_register"}]
\* The ways a run fails.
BadConfig == [Full EXCEPT !.valid = FALSE]
NoInvoices == [Full EXCEPT !.readable = AllData \ {"invoice_register"}]
NoLedger == [Full EXCEPT !.readable = AllData \ {"client_ledger"}]
Raising == [Full EXCEPT !.raising = {<<"R12", "B1">>}]
Numbered == [Full EXCEPT !.enabled = <<"R01">>, !.records["client_ledger"] = {"N7"},
                         !.breaches = {<<"R01", "N7">>}]
NoId == [Full EXCEPT !.enabled = <<"R01">>, !.records["client_ledger"] = {"E0", "L1"},
                     !.breaches = {<<"R01", "E0">>, <<"R01", "L1">>}]

\* Values one of the writers cannot take, the earlier artefacts being written.
Unwritable(step) == [Clean EXCEPT !.unwritable = {step}]

MCInputs == {Full, Undated, Clean, BadConfig, NoInvoices, NoLedger, Raising, Numbered, NoId}
            \cup {Unwritable(step) : step \in Fragile}
=============================================================================
