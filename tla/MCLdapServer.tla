---------------------------- MODULE MCLdapServer ----------------------------
EXTENDS LdapServer

CONSTANT c1

OneConn == {c1}
=============================================================================
