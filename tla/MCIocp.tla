------------------------------- MODULE MCIocp -------------------------------
(***************************************************************************)
(* IocpService.tla for TLC.  The configurations differ in the number of    *)
(* slots and bytes and in what the operating system may do: MCIocpReuse    *)
(* lets a slot be reused early and operations fail with any error code,    *)
(* MCIocpExact does not; MCIocpStaleClose refutes a promise.               *)
(***************************************************************************)
EXTENDS IocpService
=============================================================================
