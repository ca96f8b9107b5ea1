---------------------------- MODULE MCHttpServer ----------------------------
(***************************************************************************)
(* Instances of the http server.                                           *)
(***************************************************************************)
EXTENDS HttpServer, TLC

CONSTANTS p, q, cnc, cncHd, tvb

\* cncHd stands for a name that continues cnc, as cnc_ts2 continues cnc_ts.
MCStarts(m, n) == m = n \/ (m = cnc /\ n = cncHd)

Sym == Permutations({p, q})

AllTS == [n \in Names |-> "TS"]
TvbFLV == [n \in Names |-> IF n = tvb THEN "FLV" ELSE "TS"]

OneChannel  == <<[name |-> cnc, media |-> {"TS"}]>>
TwoChannels == <<[name |-> cnc, media |-> {"TS"}], [name |-> tvb, media |-> {"TS", "FLV"}]>>
=============================================================================
