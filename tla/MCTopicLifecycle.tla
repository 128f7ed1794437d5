-------------------------- MODULE MCTopicLifecycle --------------------------
(***************************************************************************)
(* Instances of TopicLifecycle and what is checked of them.                *)
(***************************************************************************)
EXTENDS TopicLifecycle, Functions, TLC

Symmetry == Permutations(Sessions)

-----------------------------------------------------------------------------
\* The request of the session has ended with its topic: it lies in a queue nobody
\* reads any more, or the topic was unregistered while being loaded for it (its
\* exit message is never taken).
Stranded(s) ==
    \E i \in Topics : LET o == obj[i] IN
        /\ o.phase \in {"ended", "stuck"}
        /\ \/ s \in Range(o.reg)
           \/ \E m \in Range(o.unreg) : m.sess = s
           \/ o.initBy = s /\ o.exit # <<>>

\* A request is answered unless it ended with its topic: there is no other way to
\* lose one when topics fail to load, time out and are loaded again.
AnsweredOrStranded ==
    \A s \in Sessions :
        ses[s].awaiting ~> ~ses[s].awaiting \/ ses[s].conn # "open" \/ Stranded(s)

\* A client that disconnects is let go, with the same exception: cleanUp gets
\* past inflightReqs.Wait.
CleanUpEnds ==
    \A s \in Sessions : ses[s].conn = "closing" ~> ses[s].conn = "closed" \/ Stranded(s)

\* Once nobody is attached and nobody asks, the topic is unloaded.
IdleUnloaded == <>[](\A i \in Topics : obj[i].phase = "running" => obj[i].sessions # {})
=============================================================================
