---------------------------- MODULE MCSessions ----------------------------
(* Two users for TLC, whose names, when they are cut, are told apart by what  *)
(* is left at the end, or no longer.                                          *)
EXTENDS Sessions

Password == [i \in 1..3 |-> [value |-> i, pads |-> {}]]

Names == {[alice |-> <<"a", "@", "b", ".", "c">>, bob |-> <<"a", "@", "b", "_", "c">>],
          [alice |-> <<"a", "@", "b", ".", "c">>, bob |-> <<"a", "@", "b", ".", "d">>]}

Plain == [force_tcp |-> FALSE, security |-> <<>>, worker_image |-> <<>>,
          scheduler_options |-> <<>>, scheduler_port |-> 8786, dashboard_port |-> 8785,
          job_kwargs |-> [scheduler_options |-> <<>>, job_extra_directives |-> <<>>]]
Own == [tls_ca_file |-> "own-ca.pem", tls_worker_cert |-> "own-cert.pem",
        tls_worker_key |-> "own-cert.pem", require_encryption |-> TRUE]
OneChange ==
  {Plain,
   [Plain EXCEPT !.force_tcp = TRUE],
   [Plain EXCEPT !.security = <<Own>>],
   [Plain EXCEPT !.scheduler_options = <<[port |-> 9000]>>],
   [Plain EXCEPT !.scheduler_port = 9000],
   [Plain EXCEPT !.job_kwargs.job_extra_directives = <<[transfer_input_files |-> {}]>>]}
=============================================================================
