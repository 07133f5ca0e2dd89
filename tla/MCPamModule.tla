---------------------------- MODULE MCPamModule ----------------------------
EXTENDS PamModule
=============================================================================
