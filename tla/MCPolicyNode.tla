---------------------------- MODULE MCPolicyNode ----------------------------
EXTENDS PolicyNode
=============================================================================
