---------------------------- MODULE ReturnCodes ----------------------------
(***************************************************************************)
(* The return codes of the dripline standard (library/return_codes.cc)     *)
(* that the modelled components give, by their values.                     *)
(***************************************************************************)
EXTENDS Naturals

dl_success == 0
dl_warning_dry_run == 3
dl_amqp_error_broker_connection == 101
dl_service_error == 300
dl_service_error_decoding_fail == 302
dl_service_error_bad_payload == 303
dl_service_error_invalid_method == 306
dl_service_error_invalid_key == 308
dl_client_error == 400
dl_client_error_invalid_request == 401
dl_client_error_handling_reply == 402
dl_client_error_unable_to_send == 403
dl_client_error_timeout == 404
dl_unhandled_exception == 999

(* The hundreds are the class of a code, the exit status of dl-agent.      *)
Class(code) == code \div 100

===========================================================================
