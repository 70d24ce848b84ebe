CONSTANTS
    app = app
    bench = bench
    None = None
    Pkgs <- MCPkgs
    Excluded <- MCExcluded
    MaxVersion = 2
    MaxReports = 4
    MaxRestarts = 1
SPECIFICATION Spec
INVARIANTS DesktopMatches NamesCurrent
CHECK_DEADLOCK FALSE
