----------------------------- MODULE MCGroupLm -----------------------------
(* Small instances of GroupLm for TLC. *)
EXTENDS GroupLm

Port == [serdes |-> "25G", retimer |-> FALSE, speed_detection |-> FALSE,
         auto_fec |-> FALSE, kr_fec_enable |-> TRUE, link_training |-> FALSE,
         rx_equal |-> FALSE, sfp_detection |-> TRUE, force_mode |-> TRUE,
         gpio_present |-> TRUE, max_speed |-> "25G", default_mode |-> "25G"]

(* One port behind a retimer that detects the speed, with automatic FEC *)
Retimer == [links |-> {0}, auto_speed |-> TRUE,
            port |-> [Port EXCEPT !.retimer = TRUE, !.speed_detection = TRUE,
                                  !.auto_fec = TRUE]]
(* Two ports of a 25G serdes, with fixed modules *)
Pair == [links |-> {0, 1}, auto_speed |-> TRUE,
         port |-> [Port EXCEPT !.sfp_detection = FALSE]]
(* An HSSP serdes that trains direct attach cables *)
Hssp == [links |-> {0}, auto_speed |-> TRUE,
         port |-> [Port EXCEPT !.serdes = "HSSP", !.link_training = TRUE,
                               !.rx_equal = TRUE, !.force_mode = FALSE,
                               !.gpio_present = FALSE, !.max_speed = "10G",
                               !.default_mode = "10G_DA"]]
AllBoards == {Retimer, Pair, Hssp}
=============================================================================
