------------------------------ MODULE MCSound ------------------------------
(* The boot on machines of two slots with two functions each, and short sounds. *)
EXTENDS Sound

Machine(k00, k01, k10, k11, m0, m1) ==
    [kind  |-> [p \in (0 .. 1) \X (0 .. 1) |->
                   CASE p = <<0, 0>> -> k00 [] p = <<0, 1>> -> k01
                     [] p = <<1, 0>> -> k10 [] p = <<1, 1>> -> k11],
     multi |-> [s \in 0 .. 1 |-> IF s = 0 THEN m0 ELSE m1]]

MCConfigs ==
    {Machine("block", "virtiosound", "block", "none", TRUE, FALSE),
     Machine("net", "block", "dummy", "sound", FALSE, TRUE),
     Machine("none", "block", "virtiosound", "none", TRUE, TRUE),
     Machine("ac97", "none", "ac97", "other", TRUE, TRUE)}
Note(hz, ms, gap) == [hz |-> hz, ms |-> ms, gap |-> gap]

MCMelody == <<Note(659, 15, 5), Note(0, 5, 0), Note(784, 20, 0)>>
MCAlert  == <<Note(988, 20, 10), Note(784, 5, 0)>>
=============================================================================
