------------------------------- MODULE MCRussula -------------------------------
EXTENDS Russula, ServerNetbench, ClientNetbench
===============================================================================
