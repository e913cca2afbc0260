------------------------------- MODULE MCImap -------------------------------
(* The watcher with a server that reports in whole lines and only while IDLE, and with one
   that does whatever it may; the last two are the servers of the runs that are to fail. *)
EXTENDS ImapWatcher

MCTameOrWild == {{}, {"outside", "torn", "hasty"}}
MCOutside == {{"outside"}}
MCTorn == {{"torn"}}
=============================================================================
