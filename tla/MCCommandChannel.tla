-------------------------- MODULE MCCommandChannel --------------------------
(* CommandChannel with one thread that may make any call of the interface,  *)
(* one that sets or gets an answer of several values, and a third one that  *)
(* joins them when all three make a short call for one client.              *)
EXTENDS CommandChannel

MCShort == [t1 |-> "GetPQMode", t2 |-> "SetPQMode", t3 |-> "GetMpegNr"]
MCUses == [t \in Threads |->
    IF t = "t1" THEN TextCalls \cup ParcelCalls
    ELSE {c \in TextCalls : \/ c.function = MCShort[t]
                            \/ c.function = "getCurrentSourceInfo" /\ t = "t2"}]

\* Nothing is claimed of torn calls: what follows when all are is left out,
\* of three calls the third waits until one of two torn ones is done, and of
\* the two that get the first one begins first.
SomeoneApart == {"t1", "t2"} \ torn # {} \/ (pc["t3"] # "idle" /\ "t3" \notin torn)
ThreeShort ==
    /\ pc["t1"] # "idle"
    /\ \A t \in Threads :
           client[t] = "c1" /\ (pc[t] # "idle" => call[t].function = MCShort[t])
    /\ torn # {} => Cardinality({t \in Threads : Running(t)}) <= 2

\* The two clients are alike.
InScope ==
    /\ client["t1"] = "c1" /\ SomeoneApart
    /\ IF pc["t3"] = "idle" THEN client["t3"] = "c1" ELSE ThreeShort
=============================================================================
