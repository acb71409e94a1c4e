--------------------------- MODULE MCKeyringStore ---------------------------
(* One key, two secrets, and a reader that takes no lock.                    *)
EXTENDS KeyringStore
=============================================================================
