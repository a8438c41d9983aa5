----------------------------- MODULE MCDrivers -----------------------------
(* Small parameters for OneDriver: two processes, rings, pools and lists of  *)
(* two or three.                                                             *)
EXTENDS OneDriver

MCModes == {[napi |-> FALSE, lockup |-> TRUE, senders |-> {0, 1}],
            [napi |-> TRUE, lockup |-> FALSE, senders |-> {0}]}

MCSetups == {[bh |-> "none", share |-> FALSE, readers |-> {"a", "b"}],
             [bh |-> "none", share |-> TRUE, readers |-> {"a"}],
             [bh |-> "tasklet", share |-> FALSE, readers |-> {"a"}]}

\* The parameters of scullp, scullv and sculld, and a small workload for the last two
Shape(order, qset) == [order |-> order, qset |-> qset]
Shape01 == Shape(0, 1)
Shape11 == Shape(1, 1)
OneMapper == {[callers |-> {"a"}, mappers |-> {"a"}, positions |-> {2}, shapes |-> {Shape01}]}
MCWorkloads == {[callers |-> {"a", "b"}, mappers |-> {}, positions |-> {0, 3},
                 shapes |-> {Shape01, Shape(0, 2), Shape11}],
                [callers |-> {"a"}, mappers |-> {"a", "b"}, positions |-> {2},
                 shapes |-> {Shape01, Shape11}]}

MCShapes == {[quantum |-> 1, qset |-> 1], [quantum |-> 1, qset |-> 2]}

MCWrites == {[sector |-> 0, segs |-> <<1, 1>>], [sector |-> 1, segs |-> <<2>>],
             [sector |-> 0, segs |-> <<2, 1>>], [sector |-> 3, segs |-> <<1>>]}
=============================================================================
