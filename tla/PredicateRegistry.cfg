SPECIFICATION RegistrySpec
CONSTANTS
  Filenames = {f1, f2, f3, f4}
  Entries = {e1, e2}
INVARIANTS
  ListsRegistered
PROPERTIES
  EntryNotOverwritten
