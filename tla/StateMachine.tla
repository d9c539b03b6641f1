---------------------------- MODULE StateMachine ----------------------------
(***************************************************************************)
(* agent/state_machine.py: the states of an update, the legal transitions  *)
(* and the busy test.  The module has no variables: the state itself, and  *)
(* the threads that move it, are in OTAAgent.                              *)
(***************************************************************************)

UpdateState == {"IDLE", "DOWNLOADING", "VERIFYING", "INSTALLING",
                "REBOOTING", "SUCCESS", "ERROR"}

Transitions == UpdateState \X UpdateState

(***************************************************************************)
(* _ALLOWED_TRANSITIONS, as a set of edges <<old state, new state>>.       *)
(***************************************************************************)
CodeEdges == {<<"IDLE", "DOWNLOADING">>,
              <<"DOWNLOADING", "VERIFYING">>, <<"DOWNLOADING", "ERROR">>,
              <<"VERIFYING", "INSTALLING">>,  <<"VERIFYING", "ERROR">>,
              <<"INSTALLING", "REBOOTING">>,  <<"INSTALLING", "ERROR">>,
              <<"REBOOTING", "SUCCESS">>,     <<"REBOOTING", "ERROR">>,
              <<"SUCCESS", "IDLE">>, <<"ERROR", "IDLE">>}

(***************************************************************************)
(* The edges OTAAgent._run_update asks transition() for.  Two of them,     *)
(* DOWNLOADING -> INSTALLING and INSTALLING -> SUCCESS, are missing from    *)
(* CodeEdges.                                                              *)
(***************************************************************************)
RequestedEdges == {<<"IDLE", "DOWNLOADING">>, <<"DOWNLOADING", "INSTALLING">>,
                   <<"INSTALLING", "SUCCESS">>, <<"SUCCESS", "IDLE">>,
                   <<"DOWNLOADING", "ERROR">>, <<"INSTALLING", "ERROR">>,
                   <<"ERROR", "IDLE">>}

\* The code's table with the missing edges added.
RepairedEdges == CodeEdges \cup RequestedEdges

\* Only the installation counts as busy.
IsBusyMutant(s) == s \notin {"IDLE", "DOWNLOADING", "ERROR"}

(***************************************************************************)
(* StateMachine.is_busy: ERROR counts as free, although the thread that    *)
(* reached it has still to go to IDLE.                                     *)
(***************************************************************************)
IsBusy(s) == s \notin {"IDLE", "ERROR"}
=============================================================================
