------------------------------- MODULE Errno -------------------------------
(* The error numbers that the driver's calls return. *)
ENOMEM == 12
EFAULT == 14
EINVAL == 22
ERESTARTSYS == 512
=============================================================================
