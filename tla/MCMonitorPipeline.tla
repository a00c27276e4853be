------------------------- MODULE MCMonitorPipeline --------------------------
(***************************************************************************)
(* Three certificates' worth of stream: a heartbeat, a wildcard and a long *)
(* name in one certificate, and the wildcard's own name again; a name with *)
(* no keyword goes by.  The log comes after the sinks that fail.           *)
(***************************************************************************)
EXTENDS MonitorPipeline, TLC

CONSTANTS log, discord, spy, bank, wildbank, long, plain, bankfile, longfile, plainfile,
          login, pay

MCGiven == <<spy, log>>
MCKeywords == <<login, pay>>
MCHolds == bank :> {pay} @@ wildbank :> {pay} @@ long :> {login, pay} @@ plain :> {}
MCClean == bank :> bank @@ wildbank :> bank @@ long :> long @@ plain :> plain
MCSafeName == bank :> bankfile @@ wildbank :> bankfile @@ long :> longfile @@ plain :> plainfile
MCStream ==
    <<[message_type |-> "heartbeat", all_domains |-> <<>>],
      [message_type |-> "certificate_update", all_domains |-> <<plain, wildbank, long>>],
      [message_type |-> "certificate_update", all_domains |-> <<bank>>]>>
=============================================================================
