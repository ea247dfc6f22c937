---------------------------- MODULE MCP4Client ----------------------------
(* Instances of P4Client for model checking.                              *)
EXTENDS P4Client

CONSTANTS amazon, walmart

\* A retailer is added, and another dropped.
MCRetailers == {amazon, walmart}
MCLists == << {amazon}, {amazon, walmart}, {walmart} >>
=============================================================================
