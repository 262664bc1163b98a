------------------------------ MODULE MCService ------------------------------
(* An instance of Service for TLC, given the inputs of MCServiceInputs.    *)
EXTENDS Service, MCServiceInputs
=============================================================================
